---------------------------- MODULE Spec2Model ----------------------------
(***************************************************************************)
(* A model of the CPACE calculator: the text predicates and the keyword    *)
(* classifier (lib/excel-parser.ts, lib/pace-criteria.ts), the tool        *)
(* handlers and the agent loop of one analysis session                     *)
(* (lib/openai-agent.ts).                                                  *)
(*                                                                         *)
(* Representation.  JavaScript strings are TLA+ strings (TLC gives Len,    *)
(* SubSeq, Head, Tail and \o on them).  A cell of a row is a tagged        *)
(* record: Str(s), Num(n), Bool(b), Null, and Undefined for a key the row  *)
(* does not have.  Numbers are integers.  A percentage is held in          *)
(* hundredths (PctOne = 1.0), so an eligible amount is held in hundredths  *)
(* of the amount's unit; a confidence is held in ConfDen-ths.              *)
(***************************************************************************)
EXTENDS Integers, Sequences, FiniteSets, TLC

(***************************************************************************)
(* Strings                                                                 *)
(***************************************************************************)
CharAt(s, i) == SubSeq(s, i, i)

CharsOf(s) == {CharAt(s, i) : i \in 1..Len(s)}

Letters == "ABCDEFGHIJKLMNOPQRSTUVWXYZabcdefghijklmnopqrstuvwxyz"

Digits == "0123456789"

\* \d of a JavaScript regular expression
DigitChars == CharsOf(Digits)

\* \w of a JavaScript regular expression
WordChars == CharsOf(Letters) \cup DigitChars \cup {"_"}

\* \s of a JavaScript regular expression, and what trim() strips
SpaceChars == {" ", "\t", "\n", "\r", "\f"}

\* the characters "." does not match
LineTerminators == {"\n", "\r"}

\* the lower-case letter of each upper-case letter
LowerOf ==
    [ A |-> "a", B |-> "b", C |-> "c", D |-> "d", E |-> "e", F |-> "f", G |-> "g", H |-> "h", I |-> "i",
      J |-> "j", K |-> "k", L |-> "l", M |-> "m", N |-> "n", O |-> "o", P |-> "p", Q |-> "q", R |-> "r",
      S |-> "s", T |-> "t", U |-> "u", V |-> "v", W |-> "w", X |-> "x", Y |-> "y", Z |-> "z" ]

\* the upper-case letter of each lower-case letter
UpperOf ==
    [ a |-> "A", b |-> "B", c |-> "C", d |-> "D", e |-> "E", f |-> "F", g |-> "G", h |-> "H", i |-> "I",
      j |-> "J", k |-> "K", l |-> "L", m |-> "M", n |-> "N", o |-> "O", p |-> "P", q |-> "Q", r |-> "R",
      s |-> "S", t |-> "T", u |-> "U", v |-> "V", w |-> "W", x |-> "X", y |-> "Y", z |-> "Z" ]

\* one character of String.prototype.toLowerCase
toLowerChar(c) == IF c \in DOMAIN LowerOf THEN LowerOf[c] ELSE c

RECURSIVE toLowerCase(_)
\* String.prototype.toLowerCase
toLowerCase(s) ==
    IF s = "" THEN "" ELSE toLowerChar(Head(s)) \o toLowerCase(Tail(s))

\* one character of String.prototype.toUpperCase
toUpperChar(c) == IF c \in DOMAIN UpperOf THEN UpperOf[c] ELSE c

RECURSIVE toUpperCase(_)
\* String.prototype.toUpperCase
toUpperCase(s) ==
    IF s = "" THEN "" ELSE toUpperChar(Head(s)) \o toUpperCase(Tail(s))

RECURSIVE trimStart(_)
trimStart(s) ==
    IF s # "" /\ Head(s) \in SpaceChars THEN trimStart(Tail(s)) ELSE s

RECURSIVE trimEnd(_)
trimEnd(s) ==
    IF s # "" /\ CharAt(s, Len(s)) \in SpaceChars
    THEN trimEnd(SubSeq(s, 1, Len(s) - 1))
    ELSE s

\* String.prototype.trim
trim(s) == trimEnd(trimStart(s))

\* sub occurs in s at position p (1-based)
StartsAt(s, p, sub) ==
    /\ p + Len(sub) - 1 <= Len(s)
    /\ SubSeq(s, p, p + Len(sub) - 1) = sub

\* String.prototype.includes
includes(s, sub) == \E p \in 1..(Len(s) - Len(sub) + 1) : StartsAt(s, p, sub)

(***************************************************************************)
(* Regular expressions.  A pattern is a sequence of items, matched left to *)
(* right; p is the 1-based position of the next character to read.         *)
(*   Lit(t)        the literal text t                                      *)
(*   B             \b                                                      *)
(*   Bol, Eol      ^ and $ (no m flag: the ends of the input)              *)
(*   Rep(c, m, n)  between m and n characters of class c; n = -1: no limit *)
(* RegExp.prototype.test asks whether the pattern matches somewhere, so    *)
(* backtracking is an existential choice of each repetition's length.      *)
(***************************************************************************)
Lit(t) == [k |-> "lit", t |-> t]

B == [k |-> "b"]

Bol == [k |-> "bol"]

Eol == [k |-> "eol"]

Rep(c, m, n) == [k |-> "rep", c |-> c, m |-> m, n |-> n]

\* c*, c+, c?, c{n}
Star(c) == Rep(c, 0, -1)

Plus(c) == Rep(c, 1, -1)

Opt(c) == Rep(c, 0, 1)

Times(c, n) == Rep(c, n, n)

\* the character classes the patterns use: \s, \d, ".", "-" and [-:]
InClass(ch, c) ==
    CASE c = "s" -> ch \in SpaceChars
      [] c = "d" -> ch \in DigitChars
      [] c = "." -> ch \notin LineTerminators
      [] c = "-" -> ch = "-"
      [] c = "-:" -> ch \in {"-", ":"}

IsWordAt(s, p) == p >= 1 /\ p <= Len(s) /\ CharAt(s, p) \in WordChars

\* \b at position p: exactly one of the characters before and at p is a word character
WordBoundary(s, p) == IsWordAt(s, p - 1) # IsWordAt(s, p)

RECURSIVE MatchFrom(_, _, _, _)
MatchFrom(re, i, s, p) ==
    IF i > Len(re) THEN TRUE
    ELSE LET it == re[i] IN
         CASE it.k = "lit" -> StartsAt(s, p, it.t) /\ MatchFrom(re, i + 1, s, p + Len(it.t))
           [] it.k = "b"   -> WordBoundary(s, p) /\ MatchFrom(re, i + 1, s, p)
           [] it.k = "bol" -> p = 1 /\ MatchFrom(re, i + 1, s, p)
           [] it.k = "eol" -> p = Len(s) + 1 /\ MatchFrom(re, i + 1, s, p)
           [] it.k = "rep" ->
                LET room == Len(s) - p + 1
                    most == IF it.n < 0 \/ it.n > room THEN room ELSE it.n
                IN  \E n \in it.m..most :
                        /\ \A j \in 0..(n - 1) : InClass(CharAt(s, p + j), it.c)
                        /\ MatchFrom(re, i + 1, s, p + n)

\* RegExp.prototype.test
RegExpTest(re, s) == \E p \in 1..(Len(s) + 1) : MatchFrom(re, 1, s, p)

(***************************************************************************)
(* lib/excel-parser.ts: isAggregateRow                                     *)
(***************************************************************************)
\* The i flag of the two "division" patterns changes nothing: the patterns are
\* applied to the lower-cased text.
aggregatePatterns == <<
    << B, Lit("subtotal"), B >>,
    << B, Lit("sub-total"), B >>,
    << B, Lit("sub total"), B >>,
    << Bol, Lit("total"), B >>,
    << B, Lit("total"), Star("s"), Eol >>,
    << B, Lit("total"), Star("s"), Times("-:", 1) >>,
    << B, Lit("grand"), Star("s"), Lit("total"), B >>,
    << B, Lit("hard"), Star("s"), Lit("cost"), Star("."), Lit("total") >>,
    << B, Lit("soft"), Star("s"), Lit("cost"), Star("."), Lit("total") >>,
    << B, Lit("project"), Star("s"), Lit("total"), B >>,
    << B, Lit("contract"), Star("s"), Lit("total"), B >>,
    << B, Lit("construction"), Star("s"), Lit("total"), B >>,
    << B, Lit("division"), Plus("s"), Plus("d"), Star("s"), Lit("total") >>,
    << B, Lit("division"), Plus("s"), Plus("d"), Star("s"), Opt("-"), Star("s"), Eol >>,
    << Bol, Times("d", 2), Star("s"), Lit("0000"), Star("s"), Eol >>,
    << Bol, Lit("division"), Plus("s"), Plus("d"), Eol >> >>

\* /^\d{2}\s+\d{4}$/
csiCodePattern == << Bol, Times("d", 2), Plus("s"), Times("d", 4), Eol >>

\* an isAggregateRow that forgets to lower-case the description
isAggregateRowCaseSensitive(description) ==
    IF description = "" THEN TRUE
    ELSE LET lower == trim(description) IN
         \/ \E i \in 1..Len(aggregatePatterns) : RegExpTest(aggregatePatterns[i], lower)
         \/ RegExpTest(csiCodePattern, trim(lower))

isAggregateRow(description) ==
    IF description = "" THEN TRUE
    ELSE LET lower == trim(toLowerCase(description)) IN
         \/ \E i \in 1..Len(aggregatePatterns) : RegExpTest(aggregatePatterns[i], lower)
         \/ RegExpTest(csiCodePattern, trim(lower))

(***************************************************************************)
(* lib/pace-criteria.ts                                                    *)
(***************************************************************************)
\* percentage 1.0, in hundredths
PctOne == 100

\* the divisor of the confidence: bestScore / 30
ConfDen == 30

PACE_ELIGIBILITY ==
    [ hvac |-> [category |-> "hvac", percentage |-> PctOne,
                description |-> "HVAC systems including heating, ventilation, air conditioning, chillers, boilers"],
      solar_renewable |-> [category |-> "solar_renewable", percentage |-> PctOne,
                description |-> "Solar panels, wind turbines, geothermal systems, renewable energy installations"],
      lighting |-> [category |-> "lighting", percentage |-> PctOne,
                description |-> "LED lighting, lighting controls, energy-efficient lighting retrofits"],
      building_envelope |-> [category |-> "building_envelope", percentage |-> PctOne,
                description |-> "Insulation, windows, roofing, doors, air sealing, building shell improvements"],
      water_efficiency |-> [category |-> "water_efficiency", percentage |-> PctOne,
                description |-> "Low-flow fixtures, water recycling systems, efficient irrigation, water heaters"],
      ev_charging |-> [category |-> "ev_charging", percentage |-> PctOne,
                description |-> "Electric vehicle charging stations and infrastructure"],
      energy_storage |-> [category |-> "energy_storage", percentage |-> PctOne,
                description |-> "Battery storage systems, thermal storage"],
      electrical |-> [category |-> "electrical", percentage |-> PctOne \div 2,
                description |-> "General electrical work (partially eligible if supporting energy efficiency)"],
      plumbing |-> [category |-> "plumbing", percentage |-> (3 * PctOne) \div 4,
                description |-> "Plumbing work (eligible if water-efficient fixtures or systems)"],
      not_eligible |-> [category |-> "not_eligible", percentage |-> 0,
                description |-> "Not eligible for PACE financing"] ]

\* Object.keys(PACE_ELIGIBILITY): the categories in insertion order
EligibilityCategories ==
    << "hvac", "solar_renewable", "lighting", "building_envelope", "water_efficiency",
       "ev_charging", "energy_storage", "electrical", "plumbing", "not_eligible" >>

CATEGORY_KEYWORDS ==
    [ hvac |-> << "hvac", "heating", "ventilation", "air conditioning", "ac unit", "a/c",
                  "furnace", "boiler", "chiller", "heat pump", "ductwork", "thermostat",
                  "vrf", "rtu", "ahu", "air handler", "condenser", "compressor", "cooling tower",
                  "mini-split", "minisplit", "package unit", "split system", "mechanical" >>,
      solar_renewable |-> << "solar", "photovoltaic", "pv system", "pv array", "inverter", "renewable",
                  "wind turbine", "geothermal", "ground source" >>,
      lighting |-> << "lighting", "led", "light fixture", "lamp", "luminaire",
                  "occupancy sensor", "daylight sensor", "dimmer", "ballast" >>,
      building_envelope |-> << "insulation", "window", "glazing", "roofing", "roof membrane", "door",
                  "weatherization", "air seal", "envelope", "cladding", "facade",
                  "skylight", "curtain wall", "thermal barrier", "r-value", "waterproofing" >>,
      water_efficiency |-> << "low-flow", "water recycl", "water reclaim", "greywater", "rainwater",
                  "efficient irrigation", "drip irrigation" >>,
      ev_charging |-> << "ev charging", "electric vehicle charging", "charging station", "evse",
                  "level 2 charger", "dc fast charg" >>,
      energy_storage |-> << "battery storage", "energy storage", "powerwall", "backup battery",
                  "thermal storage", "ice storage" >>,
      electrical |-> << "electrical", "wiring", "electrical panel", "circuit breaker", "transformer",
                  "switchgear", "electrical distribution" >>,
      plumbing |-> << "plumbing", "domestic water", "sanitary", "sewer", "water pipe" >>,
      not_eligible |-> << "furniture", "carpet", "paint", "cosmetic", "landscaping", "signage",
                  "appliance", "kitchen", "elevator", "escalator", "security", "fire alarm",
                  "fire sprinkler", "maintenance", "repair", "cleaning", "demolition",
                  "general conditions", "general requirements", "fee", "overhead", "profit",
                  "permit", "insurance", "bond", "contingency", "concrete", "masonry",
                  "structural steel", "framing", "drywall", "flooring", "tile", "countertop",
                  "cabinet", "millwork", "specialties", "equipment", "conveying" >> ]

\* Object.entries(EXCLUSION_RULES): trigger, excluded categories
EXCLUSION_RULES ==
    << [trigger |-> "elevator", categories |-> {"ev_charging"}],
       [trigger |-> "conveying", categories |-> {"ev_charging"}],
       [trigger |-> "fireproof", categories |-> {"building_envelope"}],
       [trigger |-> "fire", categories |-> {"building_envelope"}],
       [trigger |-> "fixture", categories |-> {"building_envelope"}] >>

categoryOrder ==
    << "ev_charging", "solar_renewable", "energy_storage",
       "hvac", "lighting", "water_efficiency",
       "building_envelope",
       "electrical", "plumbing" >>

\* the shortest not_eligible keyword that short-circuits: keyword.length >= 6
StrongKeywordLen == 6

\* a description left in the case it was written in
notLowered(description) == description

\* const lowerDesc = description.toLowerCase()
lowerDescOf(description) == toLowerCase(description)

\* a first loop that takes a not_eligible keyword of any length
anyNotEligible(lowerDesc) ==
    \E i \in 1..Len(CATEGORY_KEYWORDS.not_eligible) :
        includes(lowerDesc, toLowerCase(CATEGORY_KEYWORDS.not_eligible[i]))

\* the first loop of classifyLineItem: a not_eligible keyword of length >= 6 is found
strongNotEligible(lowerDesc) ==
    \E i \in 1..Len(CATEGORY_KEYWORDS.not_eligible) :
        LET keyword == CATEGORY_KEYWORDS.not_eligible[i] IN
        /\ includes(lowerDesc, toLowerCase(keyword))
        /\ Len(keyword) >= StrongKeywordLen

\* a second loop that takes a trigger only where it stands as a word
excludedCategoriesOfWords(lowerDesc) ==
    UNION { EXCLUSION_RULES[i].categories :
              i \in {j \in 1..Len(EXCLUSION_RULES) :
                        RegExpTest(<< B, Lit(EXCLUSION_RULES[j].trigger), B >>, lowerDesc)} }

\* the second loop: the categories of every rule whose trigger is found
excludedCategoriesOf(lowerDesc) ==
    UNION { EXCLUSION_RULES[i].categories :
              i \in {j \in 1..Len(EXCLUSION_RULES) : includes(lowerDesc, EXCLUSION_RULES[j].trigger)} }

\* new RegExp(`\\b${escaped keyword}\\b`, 'i').test(description); no keyword has a
\* character the escape changes, and the i flag is a match of the lower-cased texts
wordBoundaryMatch(keyword, description) ==
    RegExpTest(<< B, Lit(toLowerCase(keyword)), B >>, toLowerCase(description))

RECURSIVE scoreFromSubstrings(_, _, _, _)
\* an inner loop without the bonus of the word boundary match
scoreFromSubstrings(keywords, i, lowerDesc, description) ==
    IF i > Len(keywords) THEN 0
    ELSE (IF includes(lowerDesc, toLowerCase(keywords[i])) THEN Len(keywords[i]) * 2 ELSE 0)
             + scoreFromSubstrings(keywords, i + 1, lowerDesc, description)

RECURSIVE scoreFrom(_, _, _, _)
\* the inner loop over a category's keywords, from keyword i on
scoreFrom(keywords, i, lowerDesc, description) ==
    IF i > Len(keywords) THEN 0
    ELSE LET keyword == keywords[i]
             here == IF includes(lowerDesc, toLowerCase(keyword))
                     THEN Len(keyword) * 2
                          + (IF wordBoundaryMatch(keyword, description) THEN Len(keyword) ELSE 0)
                     ELSE 0
         IN  here + scoreFrom(keywords, i + 1, lowerDesc, description)

categoryScore(category, lowerDesc, description) ==
    scoreFrom(CATEGORY_KEYWORDS[category], 1, lowerDesc, description)

RECURSIVE bestFromLatest(_, _, _, _, _)
\* a loop in which a category of equal score replaces the best
bestFromLatest(i, excluded, lowerDesc, description, best) ==
    IF i > Len(categoryOrder) THEN best
    ELSE LET category == categoryOrder[i] IN
         IF category \in excluded
         THEN bestFromLatest(i + 1, excluded, lowerDesc, description, best)
         ELSE LET score == categoryScore(category, lowerDesc, description) IN
              bestFromLatest(i + 1, excluded, lowerDesc, description,
                             IF score >= best.score /\ score > 0
                             THEN [category |-> category, score |-> score]
                             ELSE best)

RECURSIVE bestFrom(_, _, _, _, _)
\* the loop over categoryOrder from position i on, carrying bestCategory and bestScore
bestFrom(i, excluded, lowerDesc, description, best) ==
    IF i > Len(categoryOrder) THEN best
    ELSE LET category == categoryOrder[i] IN
         IF category \in excluded
         THEN bestFrom(i + 1, excluded, lowerDesc, description, best)
         ELSE LET score == categoryScore(category, lowerDesc, description) IN
              bestFrom(i + 1, excluded, lowerDesc, description,
                       IF score > best.score
                       THEN [category |-> category, score |-> score]
                       ELSE best)

\* Math.min(bestScore / 30, 1), in ConfDen-ths
confidenceOf(bestScore) ==
    IF bestScore > 0 THEN (IF bestScore < ConfDen THEN bestScore ELSE ConfDen) ELSE 0

\* the confidence 0.9 of the short circuit, in ConfDen-ths
StrongConfidence == (9 * ConfDen) \div 10

classifyLineItem(description) ==
    LET lowerDesc == lowerDescOf(description) IN
    IF strongNotEligible(lowerDesc)
    THEN [category |-> "not_eligible", confidence |-> StrongConfidence]
    ELSE LET best == bestFrom(1, excludedCategoriesOf(lowerDesc), lowerDesc, description,
                              [category |-> "not_eligible", score |-> 0])
         IN  [category |-> best.category, confidence |-> confidenceOf(best.score)]

getEligibilityInfo(category) == PACE_ELIGIBILITY[category]

\* an eligible amount that takes every category as fully eligible
calculateFullAmount(amount, category) == amount * PctOne

\* amount * eligibility.percentage, in hundredths
calculateEligibleAmount(amount, category) ==
    amount * PACE_ELIGIBILITY[category].percentage

(***************************************************************************)
(* Cell values and the coercions String(v || '') and Number(v) || 0        *)
(***************************************************************************)
Str(s) == [t |-> "string", s |-> s]

Num(n) == [t |-> "number", n |-> n]

Bool(b) == [t |-> "boolean", b |-> b]

Null == [t |-> "null"]

\* what row[col] gives for a key the row does not have
Undefined == [t |-> "undefined"]

\* row[col]
cellOf(row, col) == IF col \in DOMAIN row THEN row[col] ELSE Undefined

\* a value JavaScript treats as false: null, undefined, 0, false, ''
isFalsy(v) ==
    \/ v.t \in {"null", "undefined"}
    \/ v.t = "number" /\ v.n = 0
    \/ v.t = "boolean" /\ ~v.b
    \/ v.t = "string" /\ v.s = ""

RECURSIVE digitsOf(_)
\* the decimal digits of a natural number
digitsOf(m) ==
    IF m < 10 THEN CharAt(Digits, m + 1)
    ELSE digitsOf(m \div 10) \o CharAt(Digits, (m % 10) + 1)

\* String(v)
toStringOf(v) ==
    CASE v.t = "string"    -> v.s
      [] v.t = "number"    -> IF v.n < 0 THEN "-" \o digitsOf(0 - v.n) ELSE digitsOf(v.n)
      [] v.t = "boolean"   -> IF v.b THEN "true" ELSE "false"
      [] v.t = "null"      -> "null"
      [] v.t = "undefined" -> "undefined"

\* String(row[descCol] || '')
descriptionOfRow(row, descCol) ==
    LET v == cellOf(row, descCol) IN
    IF isFalsy(v) THEN "" ELSE toStringOf(v)

NaN == [nan |-> TRUE]

Finite(m) == [nan |-> FALSE, n |-> m]

RECURSIVE valueOfDigits(_, _)
\* the number a string of decimal digits writes, after the digits read so far
valueOfDigits(ds, acc) ==
    IF ds = "" THEN acc
    ELSE valueOfDigits(Tail(ds),
                       10 * acc + ((CHOOSE d \in 1..Len(Digits) : CharAt(Digits, d) = Head(ds)) - 1))

isDigits(ds) == ds # "" /\ \A j \in 1..Len(ds) : CharAt(ds, j) \in DigitChars

\* Number(s) of a string: the trimmed text is empty (0), a decimal integer with an
\* optional sign, or not a number.  The texts of the model's cells hold no
\* fraction, exponent, radix prefix or "Infinity".
stringToNumber(s) ==
    LET body == trim(s) IN
    IF body = "" THEN Finite(0)
    ELSE IF isDigits(body) THEN Finite(valueOfDigits(body, 0))
    ELSE IF Head(body) = "-" /\ isDigits(Tail(body)) THEN Finite(0 - valueOfDigits(Tail(body), 0))
    ELSE IF Head(body) = "+" /\ isDigits(Tail(body)) THEN Finite(valueOfDigits(Tail(body), 0))
    ELSE NaN

\* Number(v)
toNumberOf(v) ==
    CASE v.t = "number"    -> Finite(v.n)
      [] v.t = "string"    -> stringToNumber(v.s)
      [] v.t = "boolean"   -> IF v.b THEN Finite(1) ELSE Finite(0)
      [] v.t = "null"      -> Finite(0)
      [] v.t = "undefined" -> NaN

\* Number(row[amountCol]) || 0
amountOfRow(row, amountCol) ==
    LET r == toNumberOf(cellOf(row, amountCol)) IN
    IF r.nan THEN 0 ELSE r.n

(***************************************************************************)
(* lib/excel-parser.ts: the parsed workbook and its readers                *)
(***************************************************************************)
\* dataRows.slice(0, 10)
SampleRowCount == 10

Min(a, b) == IF a < b THEN a ELSE b

\* a ParsedSheet as parseExcelBuffer returns it
ParsedSheet(name, headers, rows) ==
    [ name |-> name, headers |-> headers, rows |-> rows,
      sampleRows |-> SubSeq(rows, 1, Min(SampleRowCount, Len(rows))) ]

getSheetNames(wb) == [i \in 1..Len(wb.sheets) |-> wb.sheets[i].name]

\* workbook.sheets.find(...) finds a sheet
hasSheet(wb, sheetName) == \E i \in 1..Len(wb.sheets) : wb.sheets[i].name = sheetName

\* workbook.sheets.find((s) => s.name === sheetName): the first sheet of that name
getSheetByName(wb, sheetName) ==
    wb.sheets[CHOOSE i \in 1..Len(wb.sheets) :
                /\ wb.sheets[i].name = sheetName
                /\ \A j \in 1..(i - 1) : wb.sheets[j].name # sheetName]

getColumnData(sheet, columnName) ==
    [i \in 1..Len(sheet.rows) |-> cellOf(sheet.rows[i], columnName)]

getSheetStructure(sheet) ==
    [ headers |-> sheet.headers, sampleRows |-> sheet.sampleRows, totalRows |-> Len(sheet.rows) ]

\* a test that takes half of the values for a majority
isNumericColumnAtLeastHalf(sheet, header) ==
    LET values == getColumnData(sheet, header)
        numericCount == Cardinality({ i \in 1..Len(values) : values[i].t = "number" })
    IN  2 * numericCount >= Len(values)

\* numericCount > values.length * 0.5
isNumericColumn(sheet, header) ==
    LET values == getColumnData(sheet, header)
        numericCount == Cardinality({ i \in 1..Len(values) : values[i].t = "number" })
    IN  2 * numericCount > Len(values)

findNumericColumns(sheet) ==
    SelectSeq(sheet.headers, LAMBDA header : isNumericColumn(sheet, header))

\* keywords.some((kw) => lowerHeader.includes(kw))
someKeywordIn(keywords, lowerHeader) ==
    \E i \in 1..Len(keywords) : includes(lowerHeader, keywords[i])

descriptionHeaderKeywords == << "description", "item", "name", "detail", "scope", "work" >>

\* the length a text value must exceed to count as long: v.length > 20
LongTextLen == 20

\* textValues.length > values.length * 0.3
isLongTextColumn(sheet, header) ==
    LET values == getColumnData(sheet, header)
        textValues == { i \in 1..Len(values) :
                          values[i].t = "string" /\ Len(values[i].s) > LongTextLen }
    IN  10 * Cardinality(textValues) > 3 * Len(values)

\* a version that adds the long-text columns to the columns found by keyword
findDescriptionColumnsWithLongText(sheet) ==
    SelectSeq(sheet.headers,
              LAMBDA header : \/ someKeywordIn(descriptionHeaderKeywords, toLowerCase(header))
                              \/ isLongTextColumn(sheet, header))

findDescriptionColumns(sheet) ==
    LET byKeyword == SelectSeq(sheet.headers,
                         LAMBDA header : someKeywordIn(descriptionHeaderKeywords, toLowerCase(header)))
    IN  IF Len(byKeyword) = 0
        THEN SelectSeq(sheet.headers, LAMBDA header : isLongTextColumn(sheet, header))
        ELSE byKeyword

amountHeaderKeywords == << "total", "amount", "cost", "price", "value", "sum", "extended" >>

\* a version that goes by the header alone
findAmountColumnsOfHeaders(sheet) ==
    SelectSeq(sheet.headers,
              LAMBDA header : someKeywordIn(amountHeaderKeywords, toLowerCase(header)))

findAmountColumns(sheet) ==
    SelectSeq(findNumericColumns(sheet),
              LAMBDA header : someKeywordIn(amountHeaderKeywords, toLowerCase(header)))

(***************************************************************************)
(* lib/excel-parser.ts: detectHeaderRow.  A worksheet is its name, its     *)
(* range ('!ref', NoRef when the sheet has none) and its cells, a function *)
(* from << row, column >> (0-based) to the cell's value v.                 *)
(***************************************************************************)
NoRef == [none |-> TRUE]

Range(sr, sc, er, ec) == [s |-> [r |-> sr, c |-> sc], e |-> [r |-> er, c |-> ec]]

\* XLSX.utils.decode_range(worksheet['!ref'] || 'A1')
rangeOf(ws) == IF ws.ref = NoRef THEN Range(0, 0, 0, 0) ELSE ws.ref

\* worksheet[XLSX.utils.encode_cell({ r: row, c: col })] is a cell
hasCell(ws, row, col) == << row, col >> \in DOMAIN ws.cells

headerKeywords ==
    << "description", "item", "name", "total", "amount", "cost", "price", "qty", "quantity",
       "unit", "remarks", "notes", "csi", "code" >>

\* the rows after the first that are scanned: range.s.r + 15
HeaderScanRows == 15

\* the columns after the first that are scanned: range.s.c + 10
HeaderScanCols == 10

\* score += 10 for a keyword
KeywordScore == 10

\* cell.v.length < 30
ShortTextLen == 30

\* /^[A-Z][a-z]/.test(v)
isTitleCase(v) ==
    /\ Len(v) >= 2
    /\ CharAt(v, 1) \in DOMAIN LowerOf
    /\ CharAt(v, 2) \in DOMAIN UpperOf

\* what a text cell adds to the score of its row, the 2 of textCount * 2 included
textCellScore(v) ==
    (IF someKeywordIn(headerKeywords, toLowerCase(v)) THEN KeywordScore ELSE 0)
        + (IF Len(v) < ShortTextLen /\ Len(v) > 1 THEN 2 ELSE 0)
        + (IF v = toUpperCase(v) \/ isTitleCase(v) THEN 1 ELSE 0)
        + 2

\* what the cell at (row, col) adds to the score of its row
cellScore(ws, row, col) ==
    IF hasCell(ws, row, col) /\ ws.cells[<< row, col >>].t = "string"
    THEN textCellScore(ws.cells[<< row, col >>].s)
    ELSE 0

RECURSIVE rowScoreFrom(_, _, _, _)
\* the score of a row over the columns col..lastCol
rowScoreFrom(ws, row, col, lastCol) ==
    IF col > lastCol THEN 0
    ELSE cellScore(ws, row, col) + rowScoreFrom(ws, row, col + 1, lastCol)

\* the score of a row: its first columns, to range.s.c + 10 at most
rowScore(ws, row) ==
    LET range == rangeOf(ws) IN
    rowScoreFrom(ws, row, range.s.c, Min(range.s.c + HeaderScanCols, range.e.c))

RECURSIVE bestRowFromFirstScored(_, _, _, _)
\* a loop that keeps the first row with a score
bestRowFromFirstScored(ws, row, lastRow, best) ==
    IF row > lastRow THEN best[1]
    ELSE LET score == rowScore(ws, row) IN
         bestRowFromFirstScored(ws, row + 1, lastRow,
                                IF score > best[2] /\ best[2] = 0 THEN << row, score >> ELSE best)

RECURSIVE bestRowFrom(_, _, _, _)
\* the loop over the rows row..lastRow, best being << bestRow, bestScore >>
bestRowFrom(ws, row, lastRow, best) ==
    IF row > lastRow THEN best[1]
    ELSE LET score == rowScore(ws, row) IN
         bestRowFrom(ws, row + 1, lastRow,
                     IF score > best[2] THEN << row, score >> ELSE best)

detectHeaderRow(ws) ==
    LET range == rangeOf(ws) IN
    bestRowFrom(ws, range.s.r, Min(range.s.r + HeaderScanRows, range.e.r), << 0, 0 >>)

(***************************************************************************)
(* lib/excel-parser.ts: parseExcelBuffer.  XLSX.utils.sheet_to_json is the *)
(* library's: called without a header option it takes the first row of the *)
(* range for the keys of the records and returns a record for each later   *)
(* row that has a cell.                                                    *)
(***************************************************************************)
\* cell ? String(cell.v) : `Column ${col + 1}`
headerText(ws, row, col) ==
    IF hasCell(ws, row, col) THEN toStringOf(ws.cells[<< row, col >>])
    ELSE "Column " \o digitsOf(col + 1)

\* the headers of the columns col..range.e.c, read from the header row
extractHeaders(ws, headerRow) ==
    LET range == rangeOf(ws) IN
    [ k \in 1..(range.e.c - range.s.c + 1) |-> headerText(ws, headerRow, range.s.c + k - 1) ]

\* the text sheet_to_json makes a key of: the formatted text of the header cell,
\* "__EMPTY" where the row has no cell
keyText(ws, row, col) ==
    IF ~hasCell(ws, row, col) THEN "__EMPTY"
    ELSE LET v == ws.cells[<< row, col >>] IN
         IF v.t = "boolean" THEN (IF v.b THEN "TRUE" ELSE "FALSE") ELSE toStringOf(v)

RECURSIVE freeKey(_, _, _)
\* do { vv = v + "_" + (counter++) } while (header_cnt[vv]): << vv, counter >>
freeKey(v, counter, counts) ==
    LET vv == v \o "_" \o digitsOf(counter) IN
    IF vv \in DOMAIN counts THEN freeKey(v, counter + 1, counts)
    ELSE << vv, counter + 1 >>

RECURSIVE jsonKeysFrom(_, _, _, _, _)
\* the keys of the columns col..range.e.c; counts is header_cnt, keys the keys of
\* the columns before col
jsonKeysFrom(ws, row, col, counts, keys) ==
    IF col > rangeOf(ws).e.c THEN keys
    ELSE LET v == keyText(ws, row, col) IN
         IF v \notin DOMAIN counts
         THEN jsonKeysFrom(ws, row, col + 1, (v :> 1) @@ counts, Append(keys, v))
         ELSE LET free == freeKey(v, counts[v], counts) IN
              jsonKeysFrom(ws, row, col + 1,
                           (v :> free[2]) @@ (free[1] :> 1) @@ counts, Append(keys, free[1]))

\* the record of a row: the cell of each column under its key, defval null where
\* the row has no cell
jsonRow(ws, row, keys) ==
    LET range == rangeOf(ws) IN
    [ key \in { keys[k] : k \in 1..Len(keys) } |->
        LET col == range.s.c - 1 + CHOOSE k \in 1..Len(keys) : keys[k] = key IN
        IF hasCell(ws, row, col) THEN ws.cells[<< row, col >>] ELSE Null ]

\* a row sheet_to_json leaves out: no cell of it within the range
isBlankRow(ws, row) ==
    LET range == rangeOf(ws) IN
    \A col \in range.s.c..range.e.c : ~hasCell(ws, row, col)

RECURSIVE jsonRowsFrom(_, _, _)
\* the records of the rows row..range.e.r
jsonRowsFrom(ws, row, keys) ==
    IF row > rangeOf(ws).e.r THEN << >>
    ELSE (IF isBlankRow(ws, row) THEN << >> ELSE << jsonRow(ws, row, keys) >>)
             \o jsonRowsFrom(ws, row + 1, keys)

\* XLSX.utils.sheet_to_json(worksheet, { defval: null, range: headerRowIndex })
sheet_to_json(ws, headerRow) ==
    IF ws.ref = NoRef THEN << >>
    ELSE jsonRowsFrom(ws, headerRow + 1,
                      jsonKeysFrom(ws, headerRow, rangeOf(ws).s.c, << >>, << >>))

\* rows.length > 0 && rows[0] ? rows.slice(1) : rows -- a record is never falsy
dataRowsOf(rows) == IF Len(rows) > 0 THEN Tail(rows) ELSE rows

\* the ParsedSheet parseExcelBuffer makes of a worksheet
parseSheet(ws) ==
    LET headerRow == detectHeaderRow(ws) IN
    ParsedSheet(ws.name, extractHeaders(ws, headerRow), dataRowsOf(sheet_to_json(ws, headerRow)))

\* parseExcelBuffer(buffer, filename) of a workbook with one worksheet
parseExcelBuffer(ws, filename) == [ filename |-> filename, sheets |-> << parseSheet(ws) >> ]

(***************************************************************************)
(* The inputs of the model: the rows a sheet is made of, and the names a   *)
(* tool call can give.                                                     *)
(***************************************************************************)
\* the most rows of a generated sheet
MaxRows == 2

DescriptionHeader == "Description"

AmountHeader == "Amount"

SheetHeaders == << DescriptionHeader, AmountHeader >>

Row(d, a) == [Description |-> d, Amount |-> a]

\* Example 4 of the specification
ExampleRows ==
    << Row(Str("HVAC Replacement"), Num(100000)),
       Row(Str("Subtotal"), Num(100000)),
       Row(Str("Furniture"), Num(5000)) >>

\* rows of every kind the analysis tells apart: line items of several categories,
\* aggregate labels with and without an amount, empty and blank cells, amounts
\* given as text, as a boolean and below zero, a description given as a number
RowPool ==
    { ExampleRows[1], ExampleRows[2], ExampleRows[3],
      Row(Str("Electrical panel upgrade"), Str("2500")),
      Row(Str("Plumbing rough-in"), Num(-300)),
      Row(Str("Total"), Num(0)),
      Row(Str("Division 02"), Str("n/a")),
      Row(Str("01 1000"), Num(50)),
      Row(Str(""), Num(700)),
      Row(Null, Null),
      Row(Str("  "), Num(10)),
      Row(Num(42), Bool(TRUE)) }

\* the column names a tool call can give: the headers and one that is no header
ColumnNames == { DescriptionHeader, AmountHeader, "Missing" }

\* every text the analysis can read as a description
KnownDescriptions == { descriptionOfRow(r, c) : r \in RowPool, c \in ColumnNames }

(***************************************************************************)
(* TLC evaluates an operator anew at each use.  The two text functions of  *)
(* the analysis are tabulated once over the descriptions the model's rows  *)
(* can give; aggregateRow(d) = isAggregateRow(d) and                       *)
(* classification(d) = classifyLineItem(d) for every text d.               *)
(***************************************************************************)
RECURSIVE aggregateTableOf(_)
aggregateTableOf(texts) ==
    IF texts = {} THEN << >>
    ELSE LET d == CHOOSE e \in texts : TRUE IN
         (d :> isAggregateRow(d)) @@ aggregateTableOf(texts \ {d})

aggregateTable == aggregateTableOf(KnownDescriptions)

aggregateRow(description) ==
    IF description \in DOMAIN aggregateTable
    THEN aggregateTable[description]
    ELSE isAggregateRow(description)

RECURSIVE classifyTableOf(_)
classifyTableOf(texts) ==
    IF texts = {} THEN << >>
    ELSE LET d == CHOOSE e \in texts : TRUE IN
         (d :> classifyLineItem(d)) @@ classifyTableOf(texts \ {d})

classifyTable == classifyTableOf(KnownDescriptions)

classification(description) ==
    IF description \in DOMAIN classifyTable
    THEN classifyTable[description]
    ELSE classifyLineItem(description)

(***************************************************************************)
(* lib/openai-agent.ts: handleToolCall                                     *)
(***************************************************************************)
\* the accumulators of analyze_line_items before the first row
emptyAnalysis ==
    [ lineItems |-> << >>, totalOriginal |-> 0, totalEligible |-> 0, skippedAggregates |-> 0 ]

\* the line item of a row
lineItemOf(i, description, amount) ==
    LET category == classification(description).category
        eligibility == getEligibilityInfo(category)
    IN  [ rowIndex |-> i,
          description |-> description,
          originalAmount |-> amount,
          eligibleAmount |-> calculateEligibleAmount(amount, category),
          eligibilityCategory |-> category,
          eligibilityPercentage |-> eligibility.percentage,
          reasoning |-> eligibility.description ]

\* the accumulators after a line item is put before the others
withLineItemFirst(acc, li) ==
    [acc EXCEPT !.lineItems = << li >> \o @,
                !.totalOriginal = @ + li.originalAmount,
                !.totalEligible = @ + li.eligibleAmount]

\* the accumulators after a line item is added
withLineItem(acc, li) ==
    [acc EXCEPT !.lineItems = Append(@, li),
                !.totalOriginal = @ + li.originalAmount,
                !.totalEligible = @ + li.eligibleAmount]

\* a loop body that keeps the rows without an amount
analyzeRowKeepingZero(acc, row, i, descCol, amountCol) ==
    LET description == descriptionOfRow(row, descCol)
        amount == amountOfRow(row, amountCol)
    IN  IF description = "" THEN acc
        ELSE IF aggregateRow(description)
        THEN [acc EXCEPT !.skippedAggregates = @ + 1]
        ELSE withLineItem(acc, lineItemOf(i, description, amount))

\* a loop body that looks for the aggregate label before the empty cells
analyzeRowAggregateFirst(acc, row, i, descCol, amountCol) ==
    LET description == descriptionOfRow(row, descCol)
        amount == amountOfRow(row, amountCol)
    IN  IF description # "" /\ aggregateRow(description)
        THEN [acc EXCEPT !.skippedAggregates = @ + 1]
        ELSE IF description = "" \/ amount = 0 THEN acc
        ELSE withLineItem(acc, lineItemOf(i, description, amount))

\* a loop body that adds the amount of an aggregate row to the totals
analyzeRowTotallingAggregates(acc, row, i, descCol, amountCol) ==
    LET description == descriptionOfRow(row, descCol)
        amount == amountOfRow(row, amountCol)
    IN  IF description = "" \/ amount = 0 THEN acc
        ELSE IF aggregateRow(description)
        THEN [acc EXCEPT !.skippedAggregates = @ + 1,
                         !.totalOriginal = @ + amount,
                         !.totalEligible = @ + amount * PctOne]
        ELSE withLineItem(acc, lineItemOf(i, description, amount))

\* a loop body that takes an aggregate label for a line item
analyzeRowCountingAggregates(acc, row, i, descCol, amountCol) ==
    LET description == descriptionOfRow(row, descCol)
        amount == amountOfRow(row, amountCol)
    IN  IF description = "" \/ amount = 0 THEN acc
        ELSE withLineItem(acc, lineItemOf(i, description, amount))

\* one pass of the loop body for row i (0-based, as in the code)
analyzeRow(acc, row, i, descCol, amountCol) ==
    LET description == descriptionOfRow(row, descCol)
        amount == amountOfRow(row, amountCol)
    IN  IF description = "" \/ amount = 0 THEN acc
        ELSE IF aggregateRow(description)
        THEN [acc EXCEPT !.skippedAggregates = @ + 1]
        ELSE withLineItem(acc, lineItemOf(i, description, amount))

RECURSIVE analyzeRows(_, _, _, _, _)
\* for (let i = 0; i < sheet.rows.length; i++), from row i on
analyzeRows(rows, i, descCol, amountCol, acc) ==
    IF i >= Len(rows) THEN acc
    ELSE analyzeRows(rows, i + 1, descCol, amountCol,
                     analyzeRow(acc, rows[i + 1], i, descCol, amountCol))

\* a breakdown that counts only the categories that have a line item
breakdownOfPresent(items) ==
    [ cat \in {items[j].eligibilityCategory : j \in 1..Len(items)} |->
        Cardinality({j \in 1..Len(items) : items[j].eligibilityCategory = cat}) ]

\* a breakdown over the categories the classifier scores, which leaves out not_eligible
breakdownOfScored(items) ==
    [ cat \in {categoryOrder[c] : c \in 1..Len(categoryOrder)} |->
        Cardinality({j \in 1..Len(items) : items[j].eligibilityCategory = cat}) ]

\* lineItems.filter((li) => li.eligibilityCategory === cat).length, for every category
eligibilityBreakdown(items) ==
    [ cat \in {EligibilityCategories[c] : c \in 1..Len(EligibilityCategories)} |->
        Cardinality({j \in 1..Len(items) : items[j].eligibilityCategory = cat}) ]

RECURSIVE sumOf(_, _, _)
\* lineItems.reduce((sum, li) => sum + li[field], 0), from item j on
sumOf(items, field, j) ==
    IF j > Len(items) THEN 0 ELSE items[j][field] + sumOf(items, field, j + 1)

sheetNotFound(sheetName) == [error |-> "Sheet \"" \o sheetName \o "\" not found"]

\* data.slice(0, 20)
ColumnDataLimit == 20

\* JSON.stringify writes an undefined element of an array as null
jsonArray(values) ==
    [i \in 1..Len(values) |-> IF values[i].t = "undefined" THEN Null ELSE values[i]]

\* What handleToolCall returns and what it leaves in the session: result is the
\* value JSON.stringify is given ([text |-> t] for a result that is the plain text
\* t), question the question it returns (NoQuestion: none), lineItems and
\* pendingQuestion the session's fields after the call.
NoQuestion == [none |-> TRUE]

toolReturn(result, question, items, pending) ==
    [ result |-> result, question |-> question, lineItems |-> items, pendingQuestion |-> pending ]

get_sheet_names(wb, args, items, pending) ==
    toolReturn([sheets |-> getSheetNames(wb)], NoQuestion, items, pending)

get_sheet_structure(wb, args, items, pending) ==
    IF ~hasSheet(wb, args.sheet_name)
    THEN toolReturn(sheetNotFound(args.sheet_name), NoQuestion, items, pending)
    ELSE toolReturn(getSheetStructure(getSheetByName(wb, args.sheet_name)), NoQuestion, items, pending)

get_column_data(wb, args, items, pending) ==
    IF ~hasSheet(wb, args.sheet_name)
    THEN toolReturn(sheetNotFound(args.sheet_name), NoQuestion, items, pending)
    ELSE LET data == getColumnData(getSheetByName(wb, args.sheet_name), args.column_name) IN
         toolReturn([ column |-> args.column_name,
                      values |-> jsonArray(SubSeq(data, 1, Min(ColumnDataLimit, Len(data)))),
                      total_rows |-> Len(data) ],
                    NoQuestion, items, pending)

find_likely_columns(wb, args, items, pending) ==
    IF ~hasSheet(wb, args.sheet_name)
    THEN toolReturn(sheetNotFound(args.sheet_name), NoQuestion, items, pending)
    ELSE LET sheet == getSheetByName(wb, args.sheet_name) IN
         toolReturn([ numeric_columns |-> findNumericColumns(sheet),
                      description_columns |-> findDescriptionColumns(sheet),
                      amount_columns |-> findAmountColumns(sheet) ],
                    NoQuestion, items, pending)

\* a handler that returns the question without recording it in the session
ask_userUnrecorded(wb, args, items, pending) ==
    toolReturn([text |-> "WAITING_FOR_USER"], [question |-> args.question, answered |-> FALSE],
               items, pending)

\* the id of the question is a fresh random text that nothing reads: left out
ask_user(wb, args, items, pending) ==
    LET question == [question |-> args.question, answered |-> FALSE] IN
    toolReturn([text |-> "WAITING_FOR_USER"], question, items, question)

\* a store that adds to the line items it finds
appendLineItems(stored, produced) == stored \o produced

\* state.lineItems = lineItems
storeLineItems(stored, produced) == produced

\* the result of analyze_line_items and the stored line items it leaves
analysisReturn(done, items, pending) ==
    toolReturn([ total_items |-> Len(done.lineItems),
                 skipped_aggregate_rows |-> done.skippedAggregates,
                 total_original |-> done.totalOriginal,
                 total_eligible |-> done.totalEligible,
                 eligibility_breakdown |-> eligibilityBreakdown(done.lineItems) ],
               NoQuestion, storeLineItems(items, done.lineItems), pending)

\* a handler that empties the stored line items when the sheet is not found
analyze_line_itemsClearing(wb, args, items, pending) ==
    IF ~hasSheet(wb, args.sheet_name)
    THEN toolReturn(sheetNotFound(args.sheet_name), NoQuestion, << >>, pending)
    ELSE analysisReturn(analyzeRows(getSheetByName(wb, args.sheet_name).rows, 0,
                                    args.description_column, args.amount_column,
                                    emptyAnalysis),
                        items, pending)

analyze_line_items(wb, args, items, pending) ==
    IF ~hasSheet(wb, args.sheet_name)
    THEN toolReturn(sheetNotFound(args.sheet_name), NoQuestion, items, pending)
    ELSE analysisReturn(analyzeRows(getSheetByName(wb, args.sheet_name).rows, 0,
                                    args.description_column, args.amount_column,
                                    emptyAnalysis),
                        items, pending)

submit_results(wb, args, items, pending) ==
    toolReturn([ status |-> "complete",
                 summary |-> args.summary,
                 total_original |-> sumOf(items, "originalAmount", 1),
                 total_eligible |-> sumOf(items, "eligibleAmount", 1),
                 total_items |-> Len(items) ],
               NoQuestion, items, pending)

unknown_tool(wb, toolName, items, pending) ==
    toolReturn([error |-> "Unknown tool: " \o toolName], NoQuestion, items, pending)

(***************************************************************************)
(* The state: one session (AnalysisState), one run of runAgentLoop over    *)
(* it, and what the last calls gave.                                       *)
(***************************************************************************)
VARIABLES
    workbook,        \* state.workbook
    messages,        \* state.messages
    lineItems,       \* state.lineItems
    pendingQuestion, \* state.pendingQuestion
    pc,              \* where the run of runAgentLoop stands
    loopCount,       \* loopCount of the run
    continueLoop,    \* continueLoop of the run
    toolCalls,       \* the tool calls of the assistant message still to be handled
    events,          \* the events the run has yielded
    toolResult,      \* the result handleToolCall has just returned (NoResult: none in scope)
    lastAnalysis,    \* the last analyze_line_items call: its arguments, what it found stored, what it gave
    classifyInput,   \* the description last given to classifyLineItem
    classifyOutput,  \* what classifyLineItem returned for it
    worksheet,       \* the worksheet of the uploaded file (NoWorksheet: none uploaded)
    headerRowIndex,  \* what detectHeaderRow returned for it (-1: not called)
    aggregateInput,  \* the description last given to isAggregateRow
    aggregateOutput  \* what isAggregateRow returned for it

vars ==
    << workbook, messages, lineItems, pendingQuestion, pc, loopCount, continueLoop, toolCalls, events,
       toolResult, lastAnalysis, classifyInput, classifyOutput,
       worksheet, headerRowIndex, aggregateInput, aggregateOutput >>

sessionVars == << workbook, messages, lineItems, pendingQuestion >>

runVars == << pc, loopCount, continueLoop, toolCalls, events >>

classifyVars == << classifyInput, classifyOutput >>

parserVars == << worksheet, headerRowIndex, aggregateInput, aggregateOutput >>

NoWorksheet == [none |-> TRUE]

NoResult == [none |-> TRUE]

NoAnalysis == [none |-> TRUE]

SheetName == "Costs"

\* the sheet names a tool call can give: the sheet and one that is no sheet
SheetNames == { SheetName, "Summary" }

RECURSIVE SeqsUpTo(_, _)
\* the sequences over a set, of at most k elements
SeqsUpTo(S, k) ==
    IF k = 0 THEN { << >> }
    ELSE LET shorter == SeqsUpTo(S, k - 1) IN
         shorter \cup { Append(q, e) : q \in shorter, e \in S }

Workbook(sheet) == [filename |-> "costs.xlsx", sheets |-> << sheet >>]

\* the sheets of the analysis: every sheet of at most MaxRows rows of the pool,
\* Example 4, and a sheet without headers and rows (the parser names a column of
\* an empty sheet "Column 1"; the type ParsedSheet admits no headers)
AnalyzeSheets ==
    { ParsedSheet(SheetName, SheetHeaders, rs) : rs \in SeqsUpTo(RowPool, MaxRows) }
        \cup { ParsedSheet(SheetName, SheetHeaders, ExampleRows),
               ParsedSheet(SheetName, << >>, << >>) }

AnalyzeArguments(sn, dc, ac) ==
    [sheet_name |-> sn, description_column |-> dc, amount_column |-> ac]

\* the arguments of analyze_line_items: every pair of columns on the sheet, and
\* the headers on the name that is no sheet
AnalyzeArgs ==
    { AnalyzeArguments(SheetName, dc, ac) : dc \in ColumnNames, ac \in ColumnNames }
        \cup { AnalyzeArguments(sn, DescriptionHeader, AmountHeader) : sn \in SheetNames }

\* initializeAnalysis(workbook): messages holds the system prompt
initializeAnalysis(wb) ==
    /\ workbook = wb
    /\ messages = << [role |-> "system"] >>
    /\ lineItems = << >>
    /\ pendingQuestion = NoQuestion

idleRun ==
    /\ pc = "idle"
    /\ loopCount = 0
    /\ continueLoop = TRUE
    /\ toolCalls = << >>
    /\ events = << >>

noClassify ==
    /\ classifyInput = ""
    /\ classifyOutput = NoResult

noParser ==
    /\ worksheet = NoWorksheet
    /\ headerRowIndex = -1
    /\ aggregateInput = ""
    /\ aggregateOutput = NoResult

(***************************************************************************)
(* SpecAnalyze: a session over any sheet, and the calls of                 *)
(* analyze_line_items and submit_results on it.                            *)
(***************************************************************************)
InitAnalyze ==
    /\ \E sheet \in AnalyzeSheets : initializeAnalysis(Workbook(sheet))
    /\ idleRun
    /\ noClassify
    /\ noParser
    /\ toolResult = NoResult
    /\ lastAnalysis = NoAnalysis

\* handleToolCall(analysisId, 'analyze_line_items', args)
AnalyzeLineItems ==
    \E args \in AnalyzeArgs :
        LET ret == analyze_line_items(workbook, args, lineItems, pendingQuestion) IN
        /\ lineItems' = ret.lineItems
        /\ pendingQuestion' = ret.pendingQuestion
        /\ toolResult' = ret.result
        /\ lastAnalysis' = [args |-> args, stored |-> lineItems, result |-> ret.result]
        /\ UNCHANGED << workbook, messages, runVars, classifyVars, parserVars >>

\* handleToolCall(analysisId, 'submit_results', args)
SubmitResults ==
    LET ret == submit_results(workbook, [summary |-> "done"], lineItems, pendingQuestion) IN
    /\ lineItems' = ret.lineItems
    /\ pendingQuestion' = ret.pendingQuestion
    /\ toolResult' = ret.result
    /\ UNCHANGED << workbook, messages, runVars, classifyVars, parserVars, lastAnalysis >>

NextAnalyze == AnalyzeLineItems \/ SubmitResults

SpecAnalyze == InitAnalyze /\ [][NextAnalyze]_vars

(***************************************************************************)
(* SpecClassify: classifyLineItem on descriptions made of a few words.     *)
(***************************************************************************)
\* the most words of a generated description
MaxWords == 2

\* words with not_eligible keywords of 6 characters and more (equipment, elevator,
\* conveying, permit) and of fewer (paint, fee, bond, tile), keywords of eligible
\* categories, and words that are no keyword; one with a capital letter
ClassifyWords ==
    { "hvac", "equipment", "paint", "fee", "bond", "tile", "Elevator", "conveying",
      "charging station", "EV", "near", "permit" }

ClassifyExamples ==
    { "New elevator installation", "EV charging station near elevator", "hvac equipment" }

RECURSIVE joinWords(_)
\* the words of a sequence, a space between them
joinWords(words) ==
    IF words = << >> THEN ""
    ELSE IF Len(words) = 1 THEN words[1]
    ELSE words[1] \o " " \o joinWords(Tail(words))

\* words with keywords of equal scores in different categories (led, rtu; lamp,
\* door), of different scores, a keyword inside a longer word (thermostats), and the
\* triggers fire and fixture next to building_envelope and lighting keywords
ScoreWords ==
    { "led", "rtu", "lamp", "door", "solar", "plumbing", "thermostats", "window",
      "fire-rated", "Fixture", "light fixture" }

ScoreExamples ==
    { "Install rooftop VRF HVAC units", "fire-rated window assembly", "light fixture",
      "Fireproofing of roofing insulation", "LED Lamp Door" }

ClassifyInputs ==
    { joinWords(ws) : ws \in SeqsUpTo(ClassifyWords, MaxWords) }
        \cup { joinWords(ws) : ws \in SeqsUpTo(ScoreWords, MaxWords) }
        \cup ClassifyExamples \cup ScoreExamples

InitClassify ==
    /\ initializeAnalysis(Workbook(ParsedSheet(SheetName, SheetHeaders, ExampleRows)))
    /\ idleRun
    /\ toolResult = NoResult
    /\ lastAnalysis = NoAnalysis
    /\ classifyInput \in ClassifyInputs
    /\ classifyOutput = NoResult
    /\ noParser

\* classifyLineItem(description)
Classify ==
    /\ classifyOutput = NoResult
    /\ classifyOutput' = classifyLineItem(classifyInput)
    /\ UNCHANGED << sessionVars, runVars, toolResult, lastAnalysis, classifyInput, parserVars >>

NextClassify == Classify

SpecClassify == InitClassify /\ [][NextClassify]_vars

(***************************************************************************)
(* Properties of the classification (under SpecClassify).                  *)
(***************************************************************************)
classified == classifyOutput # NoResult

\* the text holds the word at position p: no word character before it or after it
wordAt(text, p, word) ==
    /\ StartsAt(text, p, word)
    /\ ~IsWordAt(text, p - 1)
    /\ ~IsWordAt(text, p + Len(word))

hasWord(text, word) == \E p \in 1..Len(text) : wordAt(text, p, word)

\* the not_eligible keywords of 6 characters and more
longNotEligibleKeywords ==
    { CATEGORY_KEYWORDS.not_eligible[i] : i \in 1..Len(CATEGORY_KEYWORDS.not_eligible) }
        \ { "paint", "fee", "bond", "tile" }

hasLongNotEligibleKeyword(text) ==
    \E kw \in longNotEligibleKeywords : includes(toLowerCase(text), kw)

\* C5: classifyLineItem returns not_eligible with confidence 0.9 exactly when the
\* lower-cased description contains a not_eligible keyword of 6 characters or
\* more, whatever category keywords it contains ("hvac equipment" is
\* not_eligible, 0.9); paint, fee, bond and tile do not do it.
C5_StrongNotEligible ==
    /\ \A kw \in longNotEligibleKeywords : Len(kw) >= 6
    /\ \A kw \in { "paint", "fee", "bond", "tile" } : Len(kw) < 6
    /\ classified =>
          /\ (classifyOutput = [category |-> "not_eligible", confidence |-> (9 * ConfDen) \div 10])
                <=> hasLongNotEligibleKeyword(classifyInput)
          /\ classifyInput = "hvac equipment" => classifyOutput.category = "not_eligible"

\* "hvac equipment" classified: a category keyword overridden
C5_Witness ==
    /\ classifyInput = "hvac equipment"
    /\ classified
    /\ classifyOutput.confidence = (9 * ConfDen) \div 10

\* C6: a description that contains elevator or conveying, in any letter case, is
\* never classified ev_charging, also when it contains "charging station".
C6_ElevatorNotEvCharging ==
    (/\ classified
     /\ \/ includes(toLowerCase(classifyInput), "elevator")
        \/ includes(toLowerCase(classifyInput), "conveying"))
        => classifyOutput.category # "ev_charging"

\* "EV charging station near elevator" classified
C6_Witness ==
    /\ classifyInput = "EV charging station near elevator"
    /\ classified
    /\ includes(toLowerCase(classifyInput), "charging station")
    /\ classifyOutput.category = "not_eligible"

\* the categories in the order in which they are tried
priorityOrder ==
    << "ev_charging", "solar_renewable", "energy_storage", "hvac", "lighting",
       "water_efficiency", "building_envelope", "electrical", "plumbing" >>

\* the categories the triggers found in a text exclude
exclusionSet(text) ==
    (IF includes(toLowerCase(text), "elevator") \/ includes(toLowerCase(text), "conveying")
     THEN { "ev_charging" } ELSE { })
        \cup (IF \E t \in { "fireproof", "fire", "fixture" } : includes(toLowerCase(text), t)
              THEN { "building_envelope" } ELSE { })

RECURSIVE keywordTotal(_, _)
\* over a set of keywords: twice the length of each one found in the text, and once
\* more when it is found as a word
keywordTotal(S, text) ==
    IF S = { } THEN 0
    ELSE LET kw == CHOOSE k \in S : TRUE IN
         (IF includes(text, kw)
          THEN 2 * Len(kw) + (IF hasWord(text, kw) THEN Len(kw) ELSE 0)
          ELSE 0) + keywordTotal(S \ { kw }, text)

\* the score of a category for the classified description
keywordScore(category) ==
    keywordTotal({ CATEGORY_KEYWORDS[category][i] : i \in 1..Len(CATEGORY_KEYWORDS[category]) },
                 toLowerCase(classifyInput))

\* the positions in the order of the categories that are not excluded
candidates == { i \in 1..Len(priorityOrder) : priorityOrder[i] \notin exclusionSet(classifyInput) }

\* classifyLineItem went through the categories: no short circuit
scored == classified /\ ~hasLongNotEligibleKeyword(classifyInput)

\* C21: without short circuit, classifyLineItem returns the category that is not
\* excluded with the highest score, of equal scores the first in the order
\* ev_charging, ..., plumbing, and never an excluded category.
C21_BestCategoryInOrder ==
    scored =>
        /\ classifyOutput.category \notin exclusionSet(classifyInput)
        /\ IF \E i \in candidates : keywordScore(priorityOrder[i]) > 0
           THEN \E i \in candidates :
                   /\ classifyOutput.category = priorityOrder[i]
                   /\ \A j \in candidates :
                         /\ keywordScore(priorityOrder[j]) <= keywordScore(priorityOrder[i])
                         /\ j < i => keywordScore(priorityOrder[j]) < keywordScore(priorityOrder[i])
           ELSE classifyOutput.category = "not_eligible"

\* "led rtu": lighting and hvac score 9 each, hvac comes first in the order
C21_Witness ==
    /\ scored
    /\ classifyInput = "led rtu"
    /\ keywordScore("lighting") = 9
    /\ keywordScore("hvac") = 9
    /\ classifyOutput.category = "hvac"

\* the highest score of a category that is not excluded, 0 without such a category
bestScoreOf ==
    IF candidates = { } THEN 0
    ELSE LET i == CHOOSE i \in candidates :
                      \A j \in candidates :
                          keywordScore(priorityOrder[j]) <= keywordScore(priorityOrder[i])
         IN  keywordScore(priorityOrder[i])

\* a category that is not excluded has a keyword in the description
someKeywordMatches ==
    \E i \in candidates :
        \E k \in 1..Len(CATEGORY_KEYWORDS[priorityOrder[i]]) :
            includes(toLowerCase(classifyInput), CATEGORY_KEYWORDS[priorityOrder[i]][k])

\* C22: the score of a category is twice the length of each keyword found in the
\* lower-cased description plus once the length when it is found as a word; the
\* confidence is min(bestScore / 30, 1), in [0,1]; the result is not_eligible with
\* confidence 0 exactly when no short circuit applies and no category that is not
\* excluded has a keyword in the description; another category has a confidence
\* above 0 ("Install rooftop VRF HVAC units" is hvac).
C22_ScoreAndConfidence ==
    classified =>
        /\ classifyOutput.confidence \in 0..ConfDen
        /\ scored =>
              classifyOutput.confidence * 30 = (IF bestScoreOf < 30 THEN bestScoreOf ELSE 30) * ConfDen
        /\ (classifyOutput = [category |-> "not_eligible", confidence |-> 0])
              <=> (~hasLongNotEligibleKeyword(classifyInput) /\ ~someKeywordMatches)
        /\ classifyOutput.category # "not_eligible" => classifyOutput.confidence > 0
        /\ classifyInput = "Install rooftop VRF HVAC units"
              => classifyOutput.category = "hvac" /\ classifyOutput.confidence > 0

\* the example classified: vrf and hvac found as words, "ac unit" inside "hvac
\* units", 9 + 12 + 14 = 35 and confidence 1
C22_Witness ==
    /\ classified
    /\ classifyInput = "Install rooftop VRF HVAC units"
    /\ keywordScore("hvac") = 35
    /\ classifyOutput = [category |-> "hvac", confidence |-> ConfDen]

\* the description holds fire, fireproof or fixture, in any letter case
hasFireOrFixture ==
    \E t \in { "fire", "fireproof", "fixture" } : includes(toLowerCase(classifyInput), t)

\* C23: a description that contains fire, fireproof or fixture, in any letter
\* case, is never classified building_envelope, also when it has keywords of
\* building_envelope and of no other category ("fire-rated window assembly"); the
\* other categories are still returned for their keywords ("light fixture" is
\* lighting).
C23_FireAndFixtureNotEnvelope ==
    (classified /\ hasFireOrFixture) =>
        /\ classifyOutput.category # "building_envelope"
        /\ (scored /\ \E i \in 1..Len(priorityOrder) :
                          priorityOrder[i] # "building_envelope" /\ keywordScore(priorityOrder[i]) > 0)
              => classifyOutput.category # "not_eligible"
        /\ classifyInput = "light fixture" => classifyOutput.category = "lighting"

\* "Fireproofing of roofing insulation" classified: roofing and insulation are
\* keywords of building_envelope and of no other category
C23_Witness ==
    /\ classified
    /\ classifyInput = "Fireproofing of roofing insulation"
    /\ hasFireOrFixture
    /\ keywordScore("building_envelope") = 51
    /\ \A i \in 1..Len(priorityOrder) :
          priorityOrder[i] # "building_envelope" => keywordScore(priorityOrder[i]) = 0
    /\ classifyOutput = [category |-> "not_eligible", confidence |-> 0]

(***************************************************************************)
(* SpecAggregate: isAggregateRow on labels made of a few words.            *)
(***************************************************************************)
\* the most words of a generated label
MaxLabelWords == 3

\* the subtotal words in several letter cases, a plural that is another word, the
\* parts of a division label, and descriptive text
LabelWords ==
    { "Subtotal", "SUB-TOTAL", "sub total", "Subtotals", "Division", "division", "02", "16",
      "-", "Electrical Upgrade", "HVAC" }

LabelExamples ==
    { "Subtotal - Division 02", "Division 02 Electrical Upgrade", "Division 02 -",
      "DIVISION 16-", "  Division 02  ", "Division 02 - Sitework", "   ", "01 0000", "03 3000" }

AggregateInputs ==
    { joinWords(ws) : ws \in SeqsUpTo(LabelWords, MaxLabelWords) } \cup LabelExamples

InitAggregate ==
    /\ initializeAnalysis(Workbook(ParsedSheet(SheetName, SheetHeaders, ExampleRows)))
    /\ idleRun
    /\ noClassify
    /\ toolResult = NoResult
    /\ lastAnalysis = NoAnalysis
    /\ worksheet = NoWorksheet
    /\ headerRowIndex = -1
    /\ aggregateInput \in AggregateInputs
    /\ aggregateOutput = NoResult

\* isAggregateRow(description)
IsAggregateRow ==
    /\ aggregateOutput = NoResult
    /\ aggregateOutput' = [returned |-> isAggregateRow(aggregateInput)]
    /\ UNCHANGED << sessionVars, runVars, toolResult, lastAnalysis, classifyVars,
                    worksheet, headerRowIndex, aggregateInput >>

NextAggregate == IsAggregateRow

SpecAggregate == InitAggregate /\ [][NextAggregate]_vars

(***************************************************************************)
(* Properties of the aggregate labels (under SpecAggregate).               *)
(***************************************************************************)
aggregated == aggregateOutput # NoResult

RECURSIVE pastClass(_, _, _)
\* the position after the characters of a class that start at p
pastClass(text, p, chars) ==
    IF p <= Len(text) /\ CharAt(text, p) \in chars THEN pastClass(text, p + 1, chars) ELSE p

\* where the text goes on after a leading "division <N>", 0 if it does not start so
afterDivision(text) ==
    LET d == Len("division") + 1
        n == pastClass(text, d, SpaceChars)
        e == pastClass(text, n, DigitChars)
    IN  IF StartsAt(text, 1, "division") /\ n > d /\ e > n THEN e ELSE 0

\* what follows the leading "division <N>" of a label, blanks taken off
divisionRest(description) ==
    LET text == trim(toLowerCase(description)) IN
    trim(SubSeq(text, afterDivision(text), Len(text)))

isDivisionLabel(description) == afterDivision(trim(toLowerCase(description))) > 0

\* descriptive text: it has a letter, no total word and no further division label
isDescriptive(text) ==
    /\ \E p \in 1..Len(text) : CharAt(text, p) \in CharsOf(Letters)
    /\ ~includes(text, "total")
    /\ ~includes(text, "division")

variantsOf(description) ==
    { toUpperCase(description), toLowerCase(description), " " \o description,
      description \o " ", "\t " \o description \o "  " }

\* C30: isAggregateRow returns the same for a description and for the description
\* in another letter case or with blanks added before and after it; a description
\* of blanks only is taken like the empty one and gives true.
C30_CaseAndBlanksIgnored ==
    aggregated =>
        /\ \A v \in variantsOf(aggregateInput) : isAggregateRow(v) = aggregateOutput.returned
        /\ trim(aggregateInput) = "" => aggregateOutput.returned

\* a description of three blanks is found not to be an aggregate row, the empty
\* description is one
C30_Witness ==
    /\ aggregated
    /\ aggregateInput = "   "
    /\ trim(aggregateInput) = ""
    /\ ~aggregateOutput.returned
    /\ isAggregateRow("")

(***************************************************************************)
(* SpecUpload: a worksheet is uploaded (parseExcelBuffer, then             *)
(* initializeAnalysis) and the tools that read the parsed sheet are called.*)
(***************************************************************************)
\* a position of a grid that has no cell
Absent == [t |-> "absent"]

\* the worksheet whose rows, from the row top and the column left on, are the rows
\* of the grid
Worksheet(name, top, left, grid) ==
    LET width == CHOOSE w \in 0..20 :
                    /\ \A i \in 1..Len(grid) : Len(grid[i]) <= w
                    /\ \E i \in 1..Len(grid) : Len(grid[i]) = w
        at == { << i, j >> \in (1..Len(grid)) \X (1..width) :
                  j <= Len(grid[i]) /\ grid[i][j] # Absent }
    IN  [ name |-> name,
          ref |-> Range(top, left, top + Len(grid) - 1, left + width - 1),
          cells |-> [ rc \in { << top + p[1] - 1, left + p[2] - 1 >> : p \in at } |->
                        grid[rc[1] - top + 1][rc[2] - left + 1] ] ]

\* the most data rows of a generated worksheet
MaxDataRows == 3

\* header rows: plain; without a description keyword; with a repeated text; with an
\* empty cell; with an amount keyword over a column of text
HeaderRowPool ==
    { << Str("Description"), Str("Qty"), Str("Amount") >>,
      << Str("Remarks"), Str("Qty"), Str("Total Cost") >>,
      << Str("Item"), Str("Item"), Str("Cost") >>,
      << Str("Scope of Work"), Absent, Str("Amount") >>,
      << Str("Phase"), Str("Unit Price"), Str("Count") >> }

\* data rows: numbers, long and short text, a row without cells
DataRowPool ==
    { << Str("HVAC Replacement"), Num(2), Num(100000) >>,
      << Str("Replace rooftop units with VRF"), Str("Includes crane and rigging"), Str("n/a") >>,
      << Str("Subtotal"), Absent, Num(100000) >>,
      << Absent, Absent, Absent >>,
      << Num(42), Str("each"), Bool(TRUE) >> }

GeneratedWorksheets ==
    { Worksheet(SheetName, 0, 0, << h >> \o ds) :
        h \in HeaderRowPool, ds \in SeqsUpTo(DataRowPool, MaxDataRows) }

\* the header row of the example: 'Item Description', 'Qty', 'Unit Cost', 'Total'
ExampleHeaderRow == << Str("Item Description"), Str("Qty"), Str("Unit Cost"), Str("Total") >>

\* rows of a title block: a name, an empty row, a label and its value, a
\* disclaimer in capitals, and a row of texts that all look like headers
TitleRowPool ==
    { << Str("ACME Construction") >>,
      << >>,
      << Str("Project:"), Str("Main Street Retrofit") >>,
      << Str("PRELIMINARY COST ESTIMATE - NOT FOR CONSTRUCTION") >>,
      << Str("Project Name"), Str("Total Cost"), Str("Unit Price"), Str("Item Code"),
         Str("Notes") >> }

\* worksheets with a title block in rows 0 to 2 and the example header in row 3,
\* without and with a data row
TitleBlockWorksheets ==
    { Worksheet(SheetName, 0, 0, << a, b, c, ExampleHeaderRow >> \o ds) :
        a \in TitleRowPool, b \in TitleRowPool, c \in TitleRowPool,
        ds \in { << >>, << << Str("HVAC Replacement"), Num(2), Num(50000), Num(100000) >> >> } }

\* the rows of a tall worksheet: numbers, one header-like text, two of them
TallRowKinds ==
    [ plain |-> << Num(1), Num(2) >>,
      weak |-> << Str("Remarks"), Num(2) >>,
      strong |-> << Str("Item"), Str("Qty") >> ]

\* the rows of a tall worksheet that can be header-like: the first, one in the
\* middle, the 16th, the 17th and the 18th
TallPositions == { 1, 6, HeaderScanRows + 1, HeaderScanRows + 2, HeaderScanRows + 3 }

\* worksheets of 18 rows, from the row top on
TallWorksheets ==
    { Worksheet(SheetName, top, 0,
                [ i \in 1..(HeaderScanRows + 3) |->
                    TallRowKinds[IF i \in TallPositions THEN kinds[i] ELSE "plain"] ]) :
        kinds \in [ TallPositions -> DOMAIN TallRowKinds ], top \in { 0, 2 } }

\* the columns of a wide worksheet that can hold a header-like text: the first,
\* the 11th, the 12th and the 13th
WidePositions == { 1, HeaderScanCols + 1, HeaderScanCols + 2, HeaderScanCols + 3 }

\* worksheets of 13 columns, from the column left on: one header-like text in the
\* first row, some in the second
WideWorksheets ==
    { Worksheet(SheetName, 0, left,
                << [ j \in 1..(HeaderScanCols + 3) |-> IF j = 1 THEN Str("Qty") ELSE Num(j) ],
                   [ j \in 1..(HeaderScanCols + 3) |-> IF j \in at THEN Str("Item") ELSE Num(j) ] >>) :
        at \in SUBSET WidePositions, left \in { 0, 2 } }

\* a worksheet without cells has no '!ref'
EmptyWorksheet == [ name |-> SheetName, ref |-> NoRef, cells |-> << >> ]

\* a worksheet of ten rows after the first data row, with a long text in three of
\* them in the first column and in four of them in the second
LongTextWorksheet ==
    Worksheet(SheetName, 0, 0,
              << << Str("Remarks"), Str("Phase") >>, << Str("ok"), Num(0) >> >>
                  \o [ i \in 1..10 |->
                         << IF i <= 3 THEN Str("Furnish and install new boiler") ELSE Str("ok"),
                            IF i <= 4 THEN Str("Second floor mechanical room") ELSE Num(i) >> ])

\* rows whose scores meet: a keyword cell against three capitalised ones, a short
\* text against two letters, capitals against lower-case letters, a text of 30
\* characters against one of 29
ScoredRowPool ==
    { << Str("Qty") >>,
      << Str("Phase"), Str("Zone"), Str("Area") >>,
      << Str("ab") >>,
      << Str("a"), Str("b") >>,
      << Str("a"), Str("b"), Str("c") >>,
      << Str("A"), Str("B") >>,
      << Str("a") >>,
      << Str("furnish and install new boiler") >>,
      << Str("furnish and install the pumps") >> }

\* worksheets of two such rows
ScoredWorksheets ==
    { Worksheet(SheetName, 0, 0, << first, second >>) :
        first \in ScoredRowPool, second \in ScoredRowPool }

Worksheets ==
    GeneratedWorksheets \cup TitleBlockWorksheets \cup TallWorksheets \cup WideWorksheets
        \cup ScoredWorksheets \cup { EmptyWorksheet, LongTextWorksheet }

\* no file has been uploaded: there is no session
NoWorkbook == [none |-> TRUE]

InitUpload ==
    /\ worksheet \in Worksheets
    /\ headerRowIndex = -1
    /\ workbook = NoWorkbook
    /\ messages = << >>
    /\ lineItems = << >>
    /\ pendingQuestion = NoQuestion
    /\ idleRun
    /\ noClassify
    /\ toolResult = NoResult
    /\ lastAnalysis = NoAnalysis
    /\ aggregateInput = ""
    /\ aggregateOutput = NoResult

\* POST /api/upload: parseExcelBuffer(buffer, file.name), initializeAnalysis(workbook)
Upload ==
    /\ workbook = NoWorkbook
    /\ headerRowIndex' = detectHeaderRow(worksheet)
    /\ workbook' = parseExcelBuffer(worksheet, "costs.xlsx")
    /\ messages' = << [role |-> "system"] >>
    /\ lineItems' = << >>
    /\ pendingQuestion' = NoQuestion
    /\ UNCHANGED << runVars, toolResult, lastAnalysis, classifyVars, worksheet,
                    aggregateInput, aggregateOutput >>

\* a tool that reads the sheet is called: what it returns
ReadSheet(ret) ==
    /\ lineItems' = ret.lineItems
    /\ pendingQuestion' = ret.pendingQuestion
    /\ toolResult' = ret.result
    /\ UNCHANGED << workbook, messages, runVars, lastAnalysis, classifyVars, parserVars >>

\* handleToolCall(analysisId, 'get_sheet_structure', args)
GetSheetStructure ==
    /\ workbook # NoWorkbook
    /\ ReadSheet(get_sheet_structure(workbook, [sheet_name |-> SheetName], lineItems,
                                     pendingQuestion))

\* handleToolCall(analysisId, 'find_likely_columns', args)
FindLikelyColumns ==
    /\ workbook # NoWorkbook
    /\ ReadSheet(find_likely_columns(workbook, [sheet_name |-> SheetName], lineItems,
                                     pendingQuestion))

NextUpload == Upload \/ GetSheetStructure \/ FindLikelyColumns

SpecUpload == InitUpload /\ [][NextUpload]_vars

(***************************************************************************)
(* Properties of the parser (under SpecUpload).                            *)
(***************************************************************************)
uploaded == workbook # NoWorkbook

parsedSheet == workbook.sheets[1]

\* the columns of the worksheet's range
sheetColumns == rangeOf(worksheet).s.c..rangeOf(worksheet).e.c

\* the rows of the worksheet after the detected header row
rowsAfterHeader ==
    IF worksheet.ref = NoRef THEN {} ELSE (headerRowIndex + 1)..rangeOf(worksheet).e.r

\* the value of the worksheet at (row, col), null where it has no cell
valueAt(row, col) ==
    IF hasCell(worksheet, row, col) THEN worksheet.cells[<< row, col >>] ELSE Null

\* the row after the header row repeats the header row, cell by cell
headerRepeated ==
    /\ rowsAfterHeader # {}
    /\ \A col \in sheetColumns :
          /\ hasCell(worksheet, headerRowIndex, col)
          /\ valueAt(headerRowIndex + 1, col) = valueAt(headerRowIndex, col)

\* the worksheet rows that are data rows: those after the header row, less a row
\* that repeats the header
dataRowsExpected ==
    IF headerRepeated THEN rowsAfterHeader \ { headerRowIndex + 1 } ELSE rowsAfterHeader

\* the header of a column of the worksheet
headerOfColumn(col) == parsedSheet.headers[col - rangeOf(worksheet).s.c + 1]

\* C14: Sheet.rows holds every worksheet row after the detected header row, in
\* order, the row after the header left out only when it repeats the header;
\* sampleRows is the first min(10, |rows|) rows and getSheetStructure gives
\* totalRows = |rows|.
C14_RowsAfterHeader ==
    uploaded =>
        /\ Len(parsedSheet.rows) = Cardinality(dataRowsExpected)
        /\ \A k \in 1..Len(parsedSheet.rows) :
              LET row == CHOOSE r \in dataRowsExpected :
                            Cardinality({ q \in dataRowsExpected : q < r }) = k - 1
              IN  \A col \in sheetColumns :
                      cellOf(parsedSheet.rows[k], headerOfColumn(col)) = valueAt(row, col)
        /\ parsedSheet.sampleRows
              = SubSeq(parsedSheet.rows, 1, Min(SampleRowCount, Len(parsedSheet.rows)))
        /\ (toolResult # NoResult /\ "totalRows" \in DOMAIN toolResult)
              => toolResult.totalRows = Len(parsedSheet.rows)

\* a worksheet with a header row and two data rows, parsed to a sheet of one row:
\* the second data row
C14_Witness ==
    /\ uploaded
    /\ worksheet = Worksheet(SheetName, 0, 0,
                             << << Str("Description"), Str("Qty"), Str("Amount") >>,
                                << Str("HVAC Replacement"), Num(2), Num(100000) >>,
                                << Str("Subtotal"), Absent, Num(100000) >> >>)
    /\ headerRowIndex = 0
    /\ Len(parsedSheet.rows) = 1
    /\ parsedSheet.rows[1]["Description"] = Str("Subtotal")
    /\ toolResult # NoResult
    /\ "totalRows" \in DOMAIN toolResult
    /\ toolResult.totalRows = 1

\* find_likely_columns has returned the columns of the parsed sheet
found == uploaded /\ toolResult # NoResult /\ "numeric_columns" \in DOMAIN toolResult

\* the headers at a set of positions, in header order
headersAt(positions) ==
    [ j \in 1..Cardinality(positions) |->
        parsedSheet.headers[CHOOSE k \in positions :
                               Cardinality({ q \in positions : q < k }) = j - 1] ]

\* the number of rows that hold a number under the k-th header
numbersUnder(k) ==
    Cardinality({ i \in 1..Len(parsedSheet.rows) :
                    cellOf(parsedSheet.rows[i], parsedSheet.headers[k]).t = "number" })

\* the positions of the headers with numbers in more than half of the rows
numericPositions ==
    { k \in 1..Len(parsedSheet.headers) : 2 * numbersUnder(k) > Len(parsedSheet.rows) }

\* C15: findNumericColumns returns, in header order, the headers with a number in
\* more than half of the rows; a column with a number in exactly half of the rows
\* is not returned, and no column is for a sheet without rows.
C15_NumericByStrictMajority ==
    found =>
        /\ toolResult.numeric_columns = headersAt(numericPositions)
        /\ \A k \in 1..Len(parsedSheet.headers) :
              2 * numbersUnder(k) = Len(parsedSheet.rows)
                  => \A j \in 1..Len(toolResult.numeric_columns) :
                         toolResult.numeric_columns[j] # parsedSheet.headers[k]
        /\ parsedSheet.rows = << >> => toolResult.numeric_columns = << >>

\* a sheet of two rows with a number in one row of a column and in both rows of
\* another: only the second is returned
C15_Witness ==
    /\ found
    /\ Len(parsedSheet.rows) = 2
    /\ \E k \in 1..Len(parsedSheet.headers) : numbersUnder(k) = 1
    /\ toolResult.numeric_columns = << "Amount" >>

\* the positions of the headers with a description keyword
describedPositions ==
    { k \in 1..Len(parsedSheet.headers) :
        \E kw \in { "description", "item", "name", "detail", "scope", "work" } :
            includes(toLowerCase(parsedSheet.headers[k]), kw) }

\* the number of rows that hold a text of more than 20 characters under the k-th
\* header
longTextsUnder(k) ==
    Cardinality({ i \in 1..Len(parsedSheet.rows) :
                    LET v == cellOf(parsedSheet.rows[i], parsedSheet.headers[k]) IN
                    v.t = "string" /\ Len(v.s) > 20 })

\* the positions of the headers with such a text in more than 30% of the rows
longTextPositions ==
    { k \in 1..Len(parsedSheet.headers) : 10 * longTextsUnder(k) > 3 * Len(parsedSheet.rows) }

\* C16: findDescriptionColumns returns, in header order, the headers with a
\* description keyword when there is one, and the long-text columns only when
\* there is none: a long-text column without a keyword is never returned
\* alongside a column found by keyword.
C16_DescriptionByKeywordFirst ==
    found =>
        /\ describedPositions # {}
              => toolResult.description_columns = headersAt(describedPositions)
        /\ describedPositions = {}
              => toolResult.description_columns = headersAt(longTextPositions)
        /\ \A k \in longTextPositions \ describedPositions :
              describedPositions # {}
                  => \A j \in 1..Len(toolResult.description_columns) :
                         toolResult.description_columns[j] # parsedSheet.headers[k]

\* a sheet with a long-text column under a header without a keyword, beside a
\* column found by keyword: only the second is returned
C16_Witness ==
    /\ found
    /\ longTextPositions \ describedPositions # {}
    /\ toolResult.description_columns = << "Description" >>

\* the positions of the headers with an amount keyword
amountNamedPositions ==
    { k \in 1..Len(parsedSheet.headers) :
        \E kw \in { "total", "amount", "cost", "price", "value", "sum", "extended" } :
            includes(toLowerCase(parsedSheet.headers[k]), kw) }

\* C17: findAmountColumns returns, in header order, the headers that are numeric
\* by strict majority and have an amount keyword: a sub-list of
\* findNumericColumns; a column with an amount keyword that is not numeric is not
\* returned.
C17_AmountAmongNumeric ==
    found =>
        /\ toolResult.amount_columns = headersAt(numericPositions \cap amountNamedPositions)
        /\ \A j \in 1..Len(toolResult.amount_columns) :
              \E i \in 1..Len(toolResult.numeric_columns) :
                  toolResult.numeric_columns[i] = toolResult.amount_columns[j]
        /\ \A k \in amountNamedPositions \ numericPositions :
              \A j \in 1..Len(toolResult.amount_columns) :
                  toolResult.amount_columns[j] # parsedSheet.headers[k]

\* a sheet with a numeric column without an amount keyword and a column with one
\* that holds a number in half of the rows: no amount column is returned
C17_Witness ==
    /\ found
    /\ \E k \in amountNamedPositions \ numericPositions : numbersUnder(k) > 0
    /\ toolResult.numeric_columns # << >>
    /\ toolResult.amount_columns = << >>

\* the columns of row r that hold a text, among the first 11 of the range
textColumns(r) ==
    { c \in sheetColumns :
        /\ c <= rangeOf(worksheet).s.c + 10
        /\ hasCell(worksheet, r, c)
        /\ worksheet.cells[<< r, c >>].t = "string" }

textAt(r, c) == worksheet.cells[<< r, c >>].s

\* a text in upper case (no lower-case letter) or in title case (a capital, then a
\* lower-case letter)
looksCapitalised(v) ==
    \/ \A p \in 1..Len(v) : CharAt(v, p) \notin DOMAIN UpperOf
    \/ Len(v) >= 2 /\ CharAt(v, 1) \in DOMAIN LowerOf /\ CharAt(v, 2) \in DOMAIN UpperOf

\* the score of row r: for its text cells 10 for a keyword, 2 for a length
\* between 1 and 30, 1 for upper case or title case, and 2 for each text cell
scoreOfRow(r) ==
    10 * Cardinality({ c \in textColumns(r) :
                         \E kw \in { "description", "item", "name", "total", "amount", "cost",
                                      "price", "qty", "quantity", "unit", "remarks", "notes",
                                      "csi", "code" } :
                             includes(toLowerCase(textAt(r, c)), kw) })
        + 2 * Cardinality({ c \in textColumns(r) :
                              Len(textAt(r, c)) > 1 /\ Len(textAt(r, c)) < 30 })
        + Cardinality({ c \in textColumns(r) : looksCapitalised(textAt(r, c)) })
        + 2 * Cardinality(textColumns(r))

\* the rows of the range that are scanned: the first 16
scannedRows ==
    { r \in rangeOf(worksheet).s.r..rangeOf(worksheet).e.r : r <= rangeOf(worksheet).s.r + 15 }

\* row 3 of the worksheet holds the cells of the example header, rows 0 to 2 come
\* before it
exampleInRow3 ==
    /\ uploaded
    /\ rangeOf(worksheet).s.r = 0
    /\ rangeOf(worksheet).s.c = 0
    /\ rangeOf(worksheet).e.r >= 3
    /\ \A c \in sheetColumns :
          IF c < Len(ExampleHeaderRow)
          THEN hasCell(worksheet, 3, c) /\ worksheet.cells[<< 3, c >>] = ExampleHeaderRow[c + 1]
          ELSE ~hasCell(worksheet, 3, c)

\* C18: with the example header in row 3 below a title block,
\* detectHeaderRow returns 3 whatever the title block holds.
C18_HeaderBelowAnyTitleBlock == exampleInRow3 => headerRowIndex = 3

\* a title-block row with five header-like cells scores 75, more than the 60 of the
\* header row below it, and is returned
C18_Witness ==
    /\ exampleInRow3
    /\ scoreOfRow(3) = 60
    /\ \E r \in 0..2 :
          /\ Cardinality(textColumns(r)) = 5
          /\ scoreOfRow(r) = 75
          /\ headerRowIndex = r

\* C19: the keys of every row record of the parsed sheet are among its headers,
\* also when the header row has an empty cell or a repeated text.
C19_RowKeysAmongHeaders ==
    uploaded =>
        \A i \in 1..Len(parsedSheet.rows) :
            DOMAIN parsedSheet.rows[i]
                \subseteq { parsedSheet.headers[k] : k \in 1..Len(parsedSheet.headers) }

\* a header row with an empty cell gave the header 'Column 2' and rows with the
\* key '__EMPTY'; a header row with 'Item' twice gave rows with the key 'Item_1'
C19_Witness ==
    /\ uploaded
    /\ Len(parsedSheet.rows) > 0
    /\ \/ /\ parsedSheet.headers = << "Scope of Work", "Column 2", "Amount" >>
          /\ DOMAIN parsedSheet.rows[1] = { "Scope of Work", "__EMPTY", "Amount" }
       \/ /\ parsedSheet.headers = << "Item", "Item", "Cost" >>
          /\ DOMAIN parsedSheet.rows[1] = { "Item", "Item_1", "Cost" }

analysed == lastAnalysis # NoAnalysis /\ hasSheet(workbook, lastAnalysis.args.sheet_name)

analysedSheet == getSheetByName(workbook, lastAnalysis.args.sheet_name)

analysedRows == analysedSheet.rows

rowDescription(i) == descriptionOfRow(analysedRows[i], lastAnalysis.args.description_column)

rowAmount(i) == amountOfRow(analysedRows[i], lastAnalysis.args.amount_column)

\* class (a): rows with an empty description or the amount 0
emptyRows == { i \in 1..Len(analysedRows) : rowDescription(i) = "" \/ rowAmount(i) = 0 }

\* class (b): the other rows whose description is an aggregate label
aggregateRows == { i \in (1..Len(analysedRows)) \ emptyRows : aggregateRow(rowDescription(i)) }

\* class (c): all other rows
itemRows == (1..Len(analysedRows)) \ (emptyRows \cup aggregateRows)

\* the line items made from row i (1-based here, rowIndex is 0-based)
itemsOfRow(i) == { j \in 1..Len(lineItems) : lineItems[j].rowIndex = i - 1 }

RECURSIVE amountOfRows(_)
\* the sum of the amounts of a set of rows
amountOfRows(S) ==
    IF S = {} THEN 0
    ELSE LET e == CHOOSE m \in S : TRUE IN rowAmount(e) + amountOfRows(S \ {e})

\* C2: no line item has the amount 0 or an empty description; every row whose
\* coerced amount is 0 or whose coerced description is empty gives no line item,
\* whatever its description classifies to.
C2_NoEmptyOrZeroLineItem ==
    /\ \A j \in 1..Len(lineItems) :
          lineItems[j].originalAmount # 0 /\ lineItems[j].description # ""
    /\ analysed => \A i \in emptyRows : itemsOfRow(i) = {}

\* an analysis that left out a row of an eligible category for its amount 0 and
\* made a line item of another row
C2_Witness ==
    /\ analysed
    /\ lineItems # << >>
    /\ \E i \in emptyRows :
          /\ rowAmount(i) = 0
          /\ classification(rowDescription(i)).category # "not_eligible"

\* C3: the rows fall into (a) empty description or amount 0: no line item, no
\* counter; (b) aggregate label with an amount: no line item, nothing added to the
\* totals, 1 added to skipped_aggregate_rows; (c) the rest: one line item each.
\* rows = |a| + skipped_aggregate_rows + total_items, and no line item has an
\* aggregate description.
C3_RowsPartition ==
    analysed =>
        /\ lastAnalysis.result.skipped_aggregate_rows = Cardinality(aggregateRows)
        /\ lastAnalysis.result.total_items = Cardinality(itemRows)
        /\ Len(lineItems) = lastAnalysis.result.total_items
        /\ \A i \in 1..Len(analysedRows) :
              Cardinality(itemsOfRow(i)) = IF i \in itemRows THEN 1 ELSE 0
        /\ lastAnalysis.result.total_original = amountOfRows(itemRows)
        /\ Len(analysedRows)
              = Cardinality(emptyRows) + lastAnalysis.result.skipped_aggregate_rows
                  + lastAnalysis.result.total_items
        /\ \A j \in 1..Len(lineItems) : ~aggregateRow(lineItems[j].description)

\* an analysis of a sheet with an aggregate label without an amount (a) and an
\* aggregate label with one (b)
C3_Witness ==
    /\ analysed
    /\ \E i \in emptyRows : rowDescription(i) # "" /\ aggregateRow(rowDescription(i))
    /\ lastAnalysis.result.skipped_aggregate_rows = 1

\* the amounts calculateEligibleAmount is tried on
SomeAmounts == { -300, 0, 1, 2500, 100000 }

\* C4: the percentages are 1 for the seven full categories, 0.5 for electrical,
\* 0.75 for plumbing, 0 for not_eligible (PctOne stands for 1);
\* calculateEligibleAmount is amount * percentage; every line item has
\* eligibleAmount = originalAmount * eligibilityPercentage, with the percentage and
\* the description of its own category.
C4_Percentages ==
    /\ \A c \in { "hvac", "solar_renewable", "lighting", "building_envelope",
                  "water_efficiency", "ev_charging", "energy_storage" } :
          PACE_ELIGIBILITY[c].percentage = PctOne
    /\ 2 * PACE_ELIGIBILITY["electrical"].percentage = PctOne
    /\ 4 * PACE_ELIGIBILITY["plumbing"].percentage = 3 * PctOne
    /\ PACE_ELIGIBILITY["not_eligible"].percentage = 0
    /\ \A c \in DOMAIN PACE_ELIGIBILITY :
          /\ PACE_ELIGIBILITY[c].percentage \in 0..PctOne
          /\ \A a \in SomeAmounts :
                calculateEligibleAmount(a, c) = a * PACE_ELIGIBILITY[c].percentage
    /\ \A j \in 1..Len(lineItems) :
          LET li == lineItems[j] IN
          /\ li.eligibleAmount = li.originalAmount * li.eligibilityPercentage
          /\ li.eligibilityPercentage = PACE_ELIGIBILITY[li.eligibilityCategory].percentage
          /\ li.reasoning = PACE_ELIGIBILITY[li.eligibilityCategory].description

\* line items of the two partly eligible categories
C4_Witness ==
    /\ \E j \in 1..Len(lineItems) :
          /\ lineItems[j].eligibilityCategory = "electrical"
          /\ lineItems[j].eligibleAmount = 2500 * (PctOne \div 2)
    /\ \E j \in 1..Len(lineItems) :
          /\ lineItems[j].eligibilityCategory = "plumbing"
          /\ lineItems[j].eligibleAmount = (-300) * ((3 * PctOne) \div 4)

\* C7: analyze_line_items called again with the same sheet and columns, whatever
\* was called in between, gives the same result and leaves the stored line items
\* equal to what the first call stored (it replaces, it does not append); rows
\* with the same description get the same verdict and the same category whatever
\* their position and amount.
C7_AnalyzeIdempotent ==
    /\ [](\A j \in 1..Len(lineItems) : \A k \in 1..Len(lineItems) :
            lineItems[j].description = lineItems[k].description
                => lineItems[j].eligibilityCategory = lineItems[k].eligibilityCategory)
    /\ [](analysed =>
            \A i \in aggregateRows : \A k \in itemRows : rowDescription(i) # rowDescription(k))
    /\ [][ (lastAnalysis # NoAnalysis /\ lastAnalysis'.args = lastAnalysis.args)
              => (lastAnalysis'.result = lastAnalysis.result /\ lineItems' = lineItems) ]_vars

\* a call that found stored the line items it then produced again
C7_Witness ==
    /\ analysed
    /\ Len(lineItems) = MaxRows
    /\ lastAnalysis.stored = lineItems

\* the last analyze_line_items call named a sheet of the workbook and a column that
\* is not one of its headers
absentColumn(call) ==
    /\ hasSheet(workbook, call.args.sheet_name)
    /\ LET headers == getSheetByName(workbook, call.args.sheet_name).headers
           names == { headers[h] : h \in 1..Len(headers) }
       IN  call.args.description_column \notin names \/ call.args.amount_column \notin names

\* C8: analyze_line_items naming a description or amount column that is no header
\* of the sheet returns an error and leaves the stored line items as they were.
C8_FailsOnAbsentColumn ==
    [][ (lastAnalysis' # lastAnalysis /\ absentColumn(lastAnalysis'))
           => ("error" \in DOMAIN toolResult' /\ lineItems' = lineItems) ]_vars

\* a call naming an absent column that returned an analysis and emptied the
\* line items an earlier call had stored
C8_Witness ==
    /\ lastAnalysis # NoAnalysis
    /\ absentColumn(lastAnalysis)
    /\ lastAnalysis.stored # << >>
    /\ lineItems = << >>
    /\ toolResult = lastAnalysis.result
    /\ "error" \notin DOMAIN toolResult
    /\ toolResult.total_items = 0

categoryNames ==
    { "hvac", "solar_renewable", "lighting", "building_envelope", "water_efficiency",
      "ev_charging", "energy_storage", "electrical", "plumbing", "not_eligible" }

\* C9: for a sheet without headers, a sheet without rows, or columns for which
\* every row is skipped, analyze_line_items returns a result (no error) with no
\* line item, totals 0 and a breakdown of ten entries, all 0.
C9_DegenerateInputs ==
    (analysed /\ (analysedSheet.headers = << >> \/ analysedRows = << >> \/ itemRows = {}))
        => /\ lineItems = << >>
           /\ Cardinality(categoryNames) = 10
           /\ lastAnalysis.result =
                 [ total_items |-> 0,
                   skipped_aggregate_rows |-> Cardinality(aggregateRows),
                   total_original |-> 0,
                   total_eligible |-> 0,
                   eligibility_breakdown |-> [c \in categoryNames |-> 0] ]

\* an analysis of a sheet with rows, all of them skipped, one as an aggregate
C9_Witness ==
    /\ analysed
    /\ analysedRows # << >>
    /\ itemRows = {}
    /\ aggregateRows # {}
    /\ lastAnalysis.result.total_items = 0

withoutRow(rows, p) == SubSeq(rows, 1, p - 1) \o SubSeq(rows, p + 1, Len(rows))

\* what the result tells of its line items apart from their position
describedItems(items) ==
    [ j \in 1..Len(items) |->
        << items[j].description, items[j].originalAmount, items[j].eligibilityCategory >> ]

exampleAnalysed ==
    /\ analysed
    /\ analysedRows = ExampleRows
    /\ lastAnalysis.args.description_column = DescriptionHeader
    /\ lastAnalysis.args.amount_column = AmountHeader

\* C10: Example 4 gives 2 line items, totalOriginal 105000 and totalEligible
\* 100000; a sheet with a row whose description is an aggregate label gives the
\* descriptions, amounts, categories and totals of the sheet without that row, and
\* 1 more skipped aggregate row when the amount of the row is not 0.
C10_AggregatesNotCounted ==
    /\ exampleAnalysed =>
          /\ Len(lineItems) = 2
          /\ lastAnalysis.result.total_original = 105000
          /\ lastAnalysis.result.total_eligible = 100000 * PctOne
    /\ analysed =>
          \A p \in 1..Len(analysedRows) :
              (rowDescription(p) # "" /\ aggregateRow(rowDescription(p))) =>
                  LET without == analyzeRows(withoutRow(analysedRows, p), 0,
                                             lastAnalysis.args.description_column,
                                             lastAnalysis.args.amount_column, emptyAnalysis)
                  IN  /\ describedItems(lineItems) = describedItems(without.lineItems)
                      /\ lastAnalysis.result.total_original = without.totalOriginal
                      /\ lastAnalysis.result.total_eligible = without.totalEligible
                      /\ lastAnalysis.result.skipped_aggregate_rows
                            = without.skippedAggregates + (IF rowAmount(p) # 0 THEN 1 ELSE 0)

\* the analysis of Example 4, its Subtotal row skipped
C10_Witness ==
    /\ exampleAnalysed
    /\ lastAnalysis.result.skipped_aggregate_rows = 1
    /\ lastAnalysis.result.total_items = 2

RECURSIVE breakdownTotal(_, _)
\* the sum of the entries of a breakdown for a set of categories
breakdownTotal(breakdown, S) ==
    IF S = {} THEN 0
    ELSE LET c == CHOOSE e \in S : TRUE IN breakdown[c] + breakdownTotal(breakdown, S \ {c})

\* C11: the eligibility_breakdown of an analysis has one entry for each of the ten
\* categories; each entry is the number of line items of that category (0 when
\* there is none), and the entries sum to total_items.
C11_BreakdownCounts ==
    analysed =>
        LET breakdown == lastAnalysis.result.eligibility_breakdown IN
        /\ DOMAIN breakdown = categoryNames
        /\ Cardinality(DOMAIN breakdown) = 10
        /\ \A c \in categoryNames :
              breakdown[c] = Cardinality({ j \in 1..Len(lineItems) :
                                             lineItems[j].eligibilityCategory = c })
        /\ breakdownTotal(breakdown, DOMAIN breakdown) = lastAnalysis.result.total_items

\* an analysis with a line item that is not eligible, one of an eligible category,
\* and categories without a line item
C11_Witness ==
    /\ analysed
    /\ lastAnalysis.result.total_items = 2
    /\ lastAnalysis.result.eligibility_breakdown["not_eligible"] = 1
    /\ lastAnalysis.result.eligibility_breakdown["hvac"] = 1
    /\ lastAnalysis.result.eligibility_breakdown["lighting"] = 0

\* the amount cell of row i of the analysed sheet
amountCell(i) == cellOf(analysedRows[i], lastAnalysis.args.amount_column)

\* an amount cell that is missing, null, a boolean, or text that is not a number
notNumeric(v) ==
    \/ v.t \in { "undefined", "null", "boolean" }
    \/ v.t = "string" /\ stringToNumber(v.s).nan

\* C13: a row whose amount cell is missing, null, a boolean or text that is not a
\* number has the amount 0, gives no line item and adds nothing to the totals.
C13_NonNumericAmountIsZero ==
    analysed =>
        /\ \A i \in 1..Len(analysedRows) :
              notNumeric(amountCell(i)) => (rowAmount(i) = 0 /\ itemsOfRow(i) = {})
        /\ lastAnalysis.result.total_original
              = amountOfRows({ i \in itemRows : ~notNumeric(amountCell(i)) })

\* a row with the amount cell true that gave a line item of amount 1, added to the
\* total
C13_Witness ==
    /\ analysed
    /\ \E i \in 1..Len(analysedRows) :
          /\ amountCell(i) = Bool(TRUE)
          /\ \E j \in itemsOfRow(i) : lineItems[j].originalAmount = 1
    /\ lastAnalysis.result.total_original = 1

\* C24: the line items of an analysis are in the order of the sheet: their
\* rowIndex values increase strictly, each is the 0-based position of a row of the
\* sheet, and the description and originalAmount of the item are the coerced
\* description and amount cells of that row.
C24_LineItemsInSheetOrder ==
    analysed =>
        \A j \in 1..Len(lineItems) :
            /\ lineItems[j].rowIndex \in 0..(Len(analysedRows) - 1)
            /\ \A k \in 1..Len(lineItems) : j < k => lineItems[j].rowIndex < lineItems[k].rowIndex
            /\ lineItems[j].description = rowDescription(lineItems[j].rowIndex + 1)
            /\ lineItems[j].originalAmount = rowAmount(lineItems[j].rowIndex + 1)
            /\ LET row == analysedRows[lineItems[j].rowIndex + 1]
                   d == cellOf(row, lastAnalysis.args.description_column)
                   a == cellOf(row, lastAnalysis.args.amount_column)
               IN  /\ d.t = "string" => lineItems[j].description = d.s
                   /\ a.t = "number" => lineItems[j].originalAmount = a.n

\* two line items of rows that are not next to each other: a row between them was
\* skipped
C24_Witness ==
    /\ analysed
    /\ Len(lineItems) >= 2
    /\ lineItems[1].rowIndex + 1 < lineItems[2].rowIndex
    /\ lineItems[2].originalAmount = rowAmount(lineItems[2].rowIndex + 1)
    /\ lineItems[1].description # lineItems[2].description

(***************************************************************************)
(* Spec: a session and the runs of runAgentLoop on it.  The model's reply  *)
(* to a call is any of: nothing (no content, no tool call, a finish_reason *)
(* other than 'stop'), a stop without tool calls, tool calls, an exception.*)
(***************************************************************************)
\* const maxLoops = 20
maxLoops == 20

\* the most tool calls in the messages of a session
MaxToolCalls == 2

\* the most user messages in the messages of a session
MaxUserMessages == 2

\* the most replies of the model in a session that are not replies of nothing
MaxReplies == 2

\* the most tool calls of one assistant message
MaxCallsPerMessage == 2

\* the sheet of the session: Example 4 and rows with an amount given as text,
\* an amount below zero and an aggregate label without an amount
SessionRows ==
    ExampleRows \o
        << Row(Str("Electrical panel upgrade"), Str("2500")),
           Row(Str("Plumbing rough-in"), Num(-300)),
           Row(Str("Total"), Num(0)) >>

SessionSheets == { ParsedSheet(SheetName, SheetHeaders, SessionRows) }

\* the arguments of analyze_line_items the model gives in a run
SessionAnalyzeArgs ==
    { AnalyzeArguments(SheetName, DescriptionHeader, AmountHeader),
      AnalyzeArguments(SheetName, AmountHeader, AmountHeader),
      AnalyzeArguments(SheetName, "Missing", AmountHeader),
      AnalyzeArguments("Summary", DescriptionHeader, AmountHeader) }

\* the messages, without the texts nothing reads: a system prompt, user messages,
\* assistant messages (has it content, the ids of its tool calls), tool results
UserMessage(text) == [role |-> "user", content |-> text]

AssistantMessage(hasContent, ids) ==
    [role |-> "assistant", content |-> hasContent, tool_calls |-> ids]

ToolMessage(id) == [role |-> "tool", tool_call_id |-> id]

InitialRequest == "Please analyze the uploaded Excel file"

SubmitPrompt == "Please submit the final results using the submit_results tool."

SessionNotFound == "Analysis session not found"

TookTooLong == "Analysis took too long. Please try with a simpler file."

MessageEvent == [type |-> "message"]

ToolCallEvent(toolName) == [type |-> "tool_call", toolName |-> toolName]

QuestionEvent(question) == [type |-> "question", question |-> question]

ResultEvent(items, summary) ==
    [ type |-> "result",
      result |-> [ lineItems |-> items,
                   totalOriginal |-> sumOf(items, "originalAmount", 1),
                   totalEligible |-> sumOf(items, "eligibleAmount", 1),
                   summary |-> summary ] ]

DoneEvent == [type |-> "done"]

ErrorEvent(text) == [type |-> "error", error |-> text]

userMessageCount == Cardinality({ k \in 1..Len(messages) : messages[k].role = "user" })

toolCallIds ==
    UNION { { messages[k].tool_calls[c] : c \in 1..Len(messages[k].tool_calls) } :
              k \in { m \in 1..Len(messages) : messages[m].role = "assistant" } }

\* message k is one of the replies of nothing the session began with
inEmptyPrefix(k) ==
    /\ k >= 3
    /\ k <= maxLoops + 2
    /\ \A m \in 3..k : messages[m] = AssistantMessage(FALSE, << >>)

\* the first run of the session has had nothing but replies of nothing
onlyEmptyReplies ==
    /\ Len(messages) = loopCount + 2
    /\ \A k \in 3..Len(messages) : inEmptyPrefix(k)

\* the replies of the model, those of nothing the session began with counted as one
replyCount ==
    Cardinality({ k \in 1..Len(messages) : messages[k].role = "assistant" /\ ~inEmptyPrefix(k) })
        + (IF Len(messages) >= 3 /\ inEmptyPrefix(3) THEN 1 ELSE 0)

Init ==
    /\ \E sheet \in SessionSheets : initializeAnalysis(Workbook(sheet))
    /\ idleRun
    /\ noClassify
    /\ noParser
    /\ toolResult = NoResult
    /\ lastAnalysis = NoAnalysis

\* runAgentLoop(analysisId, userMessage) up to the loop; "" is no user message
StartRun ==
    /\ pc = "idle"
    /\ \E userMessage \in { "", "Use the Amount column" } :
          IF userMessage # ""
          THEN /\ userMessageCount < MaxUserMessages
               /\ messages' = Append(messages, UserMessage(userMessage))
               /\ pendingQuestion' = NoQuestion
          ELSE IF Len(messages) = 1
          THEN /\ messages' = Append(messages, UserMessage(InitialRequest))
               /\ UNCHANGED pendingQuestion
          ELSE UNCHANGED << messages, pendingQuestion >>
    /\ continueLoop' = TRUE
    /\ loopCount' = 0
    /\ toolCalls' = << >>
    /\ events' = << >>
    /\ pc' = "loop"
    /\ toolResult' = NoResult
    /\ UNCHANGED << workbook, lineItems, lastAnalysis, classifyVars, parserVars >>

\* runAgentLoop for an id that analysisStates does not hold
RunUnknown ==
    /\ pc = "idle"
    /\ events' = << ErrorEvent(SessionNotFound) >>
    /\ toolResult' = NoResult
    /\ UNCHANGED << sessionVars, pc, loopCount, continueLoop, toolCalls, lastAnalysis,
                    classifyVars, parserVars >>

\* a loop condition without the limit
loopingUnbounded == pc = "loop" /\ continueLoop

\* while (continueLoop && loopCount < maxLoops)
looping == pc = "loop" /\ continueLoop /\ loopCount < maxLoops

\* the model replies nothing
ModelIdle ==
    /\ looping
    /\ onlyEmptyReplies
    /\ loopCount' = loopCount + 1
    /\ messages' = Append(messages, AssistantMessage(FALSE, << >>))
    /\ toolResult' = NoResult
    /\ UNCHANGED << workbook, lineItems, pendingQuestion, pc, continueLoop, toolCalls, events,
                    lastAnalysis, classifyVars, parserVars >>

\* the model replies with content and without tool calls, finish_reason 'stop'
ModelStops ==
    /\ looping
    /\ replyCount < MaxReplies
    /\ loopCount' = loopCount + 1
    /\ LET reply == Append(messages, AssistantMessage(TRUE, << >>)) IN
       IF Len(lineItems) > 0
       THEN /\ userMessageCount < MaxUserMessages
            /\ messages' = Append(reply, UserMessage(SubmitPrompt))
            /\ events' = Append(events, MessageEvent)
            /\ UNCHANGED continueLoop
       ELSE /\ messages' = reply
            /\ events' = events \o << MessageEvent, DoneEvent >>
            /\ continueLoop' = FALSE
    /\ toolResult' = NoResult
    /\ UNCHANGED << workbook, lineItems, pendingQuestion, pc, toolCalls, lastAnalysis,
                    classifyVars, parserVars >>

\* the model replies with tool calls
ModelCallsTools ==
    /\ looping
    /\ replyCount < MaxReplies
    /\ loopCount' = loopCount + 1
    /\ \E hasContent \in BOOLEAN, count \in 1..MaxCallsPerMessage :
          LET ids == [c \in 1..count |-> << Len(messages) + 1, c >>] IN
          /\ Cardinality(toolCallIds) + count <= MaxToolCalls
          /\ messages' = Append(messages, AssistantMessage(hasContent, ids))
          /\ events' = IF hasContent THEN Append(events, MessageEvent) ELSE events
          /\ toolCalls' = ids
    /\ pc' = "tools"
    /\ toolResult' = NoResult
    /\ UNCHANGED << workbook, lineItems, pendingQuestion, continueLoop, lastAnalysis,
                    classifyVars, parserVars >>

\* the call of the model throws: catch (error)
ModelThrows ==
    /\ looping
    /\ loopCount' = loopCount + 1
    /\ events' = Append(events, ErrorEvent("model call failed"))
    /\ continueLoop' = FALSE
    /\ toolResult' = NoResult
    /\ UNCHANGED << sessionVars, pc, toolCalls, lastAnalysis, classifyVars, parserVars >>

\* JSON.parse(toolCall.function.arguments) throws: catch (error)
ArgumentsMalformed ==
    /\ pc = "tools"
    /\ events' = Append(events, ErrorEvent("Unexpected token in JSON"))
    /\ continueLoop' = FALSE
    /\ toolCalls' = << >>
    /\ pc' = "loop"
    /\ toolResult' = NoResult
    /\ UNCHANGED << sessionVars, loopCount, lastAnalysis, classifyVars, parserVars >>

\* the body of for (const toolCall of message.tool_calls) after handleToolCall returned ret
Handled(toolName, args, ret) ==
    LET called == Append(events, ToolCallEvent(toolName)) IN
    /\ pc = "tools"
    /\ lineItems' = ret.lineItems
    /\ pendingQuestion' = ret.pendingQuestion
    /\ toolResult' = ret.result
    /\ messages' = Append(messages, ToolMessage(Head(toolCalls)))
    /\ IF ret.question # NoQuestion
       THEN /\ events' = Append(called, QuestionEvent(ret.question))
            /\ continueLoop' = FALSE
            /\ toolCalls' = << >>
            /\ pc' = "loop"
       ELSE IF toolName = "submit_results"
       THEN /\ events' = called \o << ResultEvent(ret.lineItems, args.summary), DoneEvent >>
            /\ continueLoop' = FALSE
            /\ toolCalls' = << >>
            /\ pc' = "loop"
       ELSE /\ events' = called
            /\ UNCHANGED continueLoop
            /\ toolCalls' = Tail(toolCalls)
            /\ pc' = IF Tail(toolCalls) = << >> THEN "loop" ELSE "tools"
    /\ UNCHANGED << workbook, loopCount, classifyVars, parserVars >>

HandleGetSheetNames ==
    /\ Handled("get_sheet_names", << >>,
               get_sheet_names(workbook, << >>, lineItems, pendingQuestion))
    /\ UNCHANGED lastAnalysis

HandleGetSheetStructure ==
    /\ \E sn \in SheetNames :
          LET args == [sheet_name |-> sn] IN
          Handled("get_sheet_structure", args,
                  get_sheet_structure(workbook, args, lineItems, pendingQuestion))
    /\ UNCHANGED lastAnalysis

HandleGetColumnData ==
    /\ \E sn \in SheetNames, cn \in { AmountHeader, "Missing" } :
          LET args == [sheet_name |-> sn, column_name |-> cn] IN
          Handled("get_column_data", args,
                  get_column_data(workbook, args, lineItems, pendingQuestion))
    /\ UNCHANGED lastAnalysis

HandleFindLikelyColumns ==
    /\ \E sn \in SheetNames :
          LET args == [sheet_name |-> sn] IN
          Handled("find_likely_columns", args,
                  find_likely_columns(workbook, args, lineItems, pendingQuestion))
    /\ UNCHANGED lastAnalysis

HandleAskUser ==
    /\ LET args == [question |-> "Which column holds the amounts?"] IN
       Handled("ask_user", args, ask_user(workbook, args, lineItems, pendingQuestion))
    /\ UNCHANGED lastAnalysis

HandleAnalyzeLineItems ==
    \E args \in SessionAnalyzeArgs :
        LET ret == analyze_line_items(workbook, args, lineItems, pendingQuestion) IN
        /\ Handled("analyze_line_items", args, ret)
        /\ lastAnalysis' = [args |-> args, stored |-> lineItems, result |-> ret.result]

HandleSubmitResults ==
    /\ LET args == [summary |-> "done"] IN
       Handled("submit_results", args, submit_results(workbook, args, lineItems, pendingQuestion))
    /\ UNCHANGED lastAnalysis

HandleUnknownTool ==
    /\ Handled("delete_sheet", << >>,
               unknown_tool(workbook, "delete_sheet", lineItems, pendingQuestion))
    /\ UNCHANGED lastAnalysis

\* the loop is left: if (loopCount >= maxLoops) the run yields a last error
ExitLoop ==
    /\ pc = "loop"
    /\ ~(continueLoop /\ loopCount < maxLoops)
    /\ events' = IF loopCount >= maxLoops
                 THEN Append(events, ErrorEvent(TookTooLong))
                 ELSE events
    /\ pc' = "idle"
    /\ toolResult' = NoResult
    /\ UNCHANGED << sessionVars, loopCount, continueLoop, toolCalls, lastAnalysis,
                    classifyVars, parserVars >>

Next ==
    \/ StartRun
    \/ RunUnknown
    \/ ModelIdle
    \/ ModelStops
    \/ ModelCallsTools
    \/ ModelThrows
    \/ ArgumentsMalformed
    \/ HandleGetSheetNames
    \/ HandleGetSheetStructure
    \/ HandleGetColumnData
    \/ HandleFindLikelyColumns
    \/ HandleAskUser
    \/ HandleAnalyzeLineItems
    \/ HandleSubmitResults
    \/ HandleUnknownTool
    \/ ExitLoop

Spec == Init /\ [][Next]_vars

\* a step of a run that has begun: every await of the run returns or throws, and
\* the generator is read to its end
RunStep ==
    \/ ModelIdle
    \/ ModelStops
    \/ ModelCallsTools
    \/ ModelThrows
    \/ ArgumentsMalformed
    \/ HandleGetSheetNames
    \/ HandleGetSheetStructure
    \/ HandleGetColumnData
    \/ HandleFindLikelyColumns
    \/ HandleAskUser
    \/ HandleAnalyzeLineItems
    \/ HandleSubmitResults
    \/ HandleUnknownTool
    \/ ExitLoop

\* the session with runs that go on until they end
LiveSpec == Spec /\ WF_vars(RunStep)

(***************************************************************************)
(* Properties of the session (under Spec).                                 *)
(***************************************************************************)
RECURSIVE fieldTotal(_, _)
\* the sum of a field over line items
fieldTotal(items, field) ==
    IF items = << >> THEN 0
    ELSE fieldTotal(SubSeq(items, 1, Len(items) - 1), field) + items[Len(items)][field]

\* C1: the totals analyze_line_items reports are the sums of originalAmount and
\* eligibleAmount over the line items it produced; the totals submit_results
\* reports and the totals of the result event are the same sums over the stored
\* line items, which the result event carries.
C1_TotalsAreSums ==
    /\ "skipped_aggregate_rows" \in DOMAIN toolResult =>
          /\ toolResult.total_original = fieldTotal(lineItems, "originalAmount")
          /\ toolResult.total_eligible = fieldTotal(lineItems, "eligibleAmount")
          /\ toolResult.total_items = Len(lineItems)
    /\ "status" \in DOMAIN toolResult =>
          /\ toolResult.total_original = fieldTotal(lineItems, "originalAmount")
          /\ toolResult.total_eligible = fieldTotal(lineItems, "eligibleAmount")
    /\ \A k \in 1..Len(events) :
          events[k].type = "result" =>
              /\ events[k].result.lineItems = lineItems
              /\ events[k].result.totalOriginal = fieldTotal(lineItems, "originalAmount")
              /\ events[k].result.totalEligible = fieldTotal(lineItems, "eligibleAmount")

\* a result event for the four line items of the session's sheet, two aggregate
\* rows left out of the totals
C1_Witness ==
    /\ \E k \in 1..Len(events) :
          /\ events[k].type = "result"
          /\ Len(events[k].result.lineItems) = 4
          /\ events[k].result.totalOriginal = 100000 + 5000 + 2500 - 300
    /\ lastAnalysis # NoAnalysis
    /\ lastAnalysis.result.total_original = 100000 + 5000 + 2500 - 300
    /\ lastAnalysis.result.skipped_aggregate_rows = 1

\* the step handles a call of the tool: the run yields its tool_call event
calledTool(toolName) ==
    /\ pc = "tools"
    /\ Len(events') > Len(events)
    /\ events'[Len(events) + 1] = ToolCallEvent(toolName)

\* the line items the call of analyze_line_items with these arguments puts out
outputOf(args) ==
    analyzeRows(getSheetByName(workbook, args.sheet_name).rows, 0,
                args.description_column, args.amount_column, emptyAnalysis).lineItems

\* C25: the stored line items are the output of the last analyze_line_items call
\* that found its sheet, and empty before: such a call stores its output, a call
\* for a sheet that is not in the workbook returns an error and leaves them, no
\* other step changes them, and the result event carries them.
C25_StoredLineItemsFrame ==
    [][ /\ lastAnalysis' = NoAnalysis => lineItems' = << >>
        /\ IF calledTool("analyze_line_items")
           THEN IF hasSheet(workbook, lastAnalysis'.args.sheet_name)
                THEN lineItems' = outputOf(lastAnalysis'.args)
                ELSE "error" \in DOMAIN toolResult' /\ lineItems' = lineItems
           ELSE lineItems' = lineItems
        /\ \A k \in 1..Len(events') :
              events'[k].type = "result" => events'[k].result.lineItems = lineItems'
      ]_vars

\* after an analysis that stored four line items, a call for the sheet "Summary"
\* returned an error and left the four
C25_Witness ==
    /\ lastAnalysis # NoAnalysis
    /\ lastAnalysis.args.sheet_name = "Summary"
    /\ "error" \in DOMAIN lastAnalysis.result
    /\ toolResult = lastAnalysis.result
    /\ Len(lastAnalysis.stored) = 4
    /\ lineItems = lastAnalysis.stored

\* the step is a call of the model: an assistant message is added to the history,
\* or the call throws
modelCalled ==
    \/ /\ Len(messages') > Len(messages)
       /\ messages'[Len(messages) + 1].role = "assistant"
    \/ /\ Len(events') > Len(events)
       /\ events'[Len(events')] = ErrorEvent("model call failed")

\* the run has ended
runEnded == pc = "idle" /\ events # << >>

\* C26: a run of runAgentLoop makes at most 20 calls of the model and ends,
\* whatever the model replies: with a question event, a result event followed by
\* done, a done event, an error event, or at the limit of 20 iterations; a run for
\* an unknown analysis id yields one error event and calls no model.
C26_RunEndsWithin20Calls ==
    /\ [](loopCount \in 0..20)
    /\ [][ /\ (pc = "idle" /\ pc' # "idle") => loopCount' = 0
           /\ modelCalled => (loopCount < 20 /\ loopCount' = loopCount + 1)
           /\ (events' # events /\ ErrorEvent(SessionNotFound) \in { events'[k] : k \in 1..Len(events') })
                 => (events' = << ErrorEvent(SessionNotFound) >> /\ ~modelCalled
                        /\ messages' = messages /\ pc' = "idle")
         ]_vars
    /\ [](runEnded =>
             /\ events[Len(events)].type \in { "question", "done", "error" }
             /\ \A k \in 1..Len(events) :
                   events[k].type = "result" => (k < Len(events) /\ events[k + 1].type = "done")
             /\ loopCount < 20 => continueLoop = FALSE \/ events = << ErrorEvent(SessionNotFound) >>)
    /\ (pc # "idle") ~> (pc = "idle")

\* a run in which the model replied nothing twenty times, ended at the limit
C26_Witness ==
    /\ runEnded
    /\ loopCount = 20
    /\ continueLoop
    /\ Len(messages) = 22
    /\ events = << ErrorEvent(TookTooLong) >>

\* the run has yielded a question event
questionAsked == \E k \in 1..Len(events) : events[k].type = "question"

\* C27: when the model calls ask_user the run records the question as
\* pendingQuestion and yields a question event, and handles no further tool call
\* and calls the model no more; the next run with a user message appends it as a
\* user message and clears pendingQuestion before the model is called.
C27_QuestionPausesRun ==
    /\ [][ /\ calledTool("ask_user") =>
                 /\ pendingQuestion' # NoQuestion
                 /\ pendingQuestion'.question = "Which column holds the amounts?"
                 /\ events' = events \o << ToolCallEvent("ask_user"), QuestionEvent(pendingQuestion') >>
           /\ (questionAsked /\ pc # "idle") =>
                 /\ ~modelCalled
                 /\ messages' = messages
                 /\ \A k \in 1..Len(events') : k > Len(events) => events'[k].type = "error"
           /\ (pc = "idle" /\ pc' # "idle" /\ pendingQuestion # NoQuestion) =>
                 \/ messages' = messages /\ pendingQuestion' = pendingQuestion
                 \/ /\ Len(messages') = Len(messages) + 1
                    /\ SubSeq(messages', 1, Len(messages)) = messages
                    /\ messages'[Len(messages')] = UserMessage("Use the Amount column")
                    /\ pendingQuestion' = NoQuestion
           /\ (modelCalled /\ messages[Len(messages)] = UserMessage("Use the Amount column"))
                 => pendingQuestion = NoQuestion
         ]_vars
    /\ [](questionAsked => (~looping /\ pc # "tools" /\ pendingQuestion # NoQuestion))

\* ask_user was the first of two tool calls of an assistant message: the question
\* is recorded and yielded, the second call is not handled, the loop is over
C27_Witness ==
    /\ questionAsked
    /\ pc = "loop"
    /\ ~continueLoop
    /\ pendingQuestion = [question |-> "Which column holds the amounts?", answered |-> FALSE]
    /\ events[Len(events)] = QuestionEvent(pendingQuestion)
    /\ messages[Len(messages)].role = "tool"
    /\ Len(messages[Len(messages) - 1].tool_calls) = 2

\* C28: the error "Analysis took too long..." is yielded only by a run that the
\* limit of 20 iterations cut off: never after a result, done, question or other
\* error event of the same run.
C28_TookTooLongOnlyWhenCutOff ==
    \A k \in 1..Len(events) :
        events[k] = ErrorEvent(TookTooLong) =>
            \A j \in 1..(k - 1) : events[j].type \notin { "result", "done", "question", "error" }

\* the model replied nothing 19 times and called submit_results in the 20th
\* iteration: the run yields the result, done, and then the error
C28_Witness ==
    /\ pc = "idle"
    /\ loopCount = 20
    /\ ~continueLoop
    /\ Len(events) = 4
    /\ events[1] = ToolCallEvent("submit_results")
    /\ events[2].type = "result"
    /\ events[3] = DoneEvent
    /\ events[4] = ErrorEvent(TookTooLong)

\* the tool results for a tool call id after message m
resultsAfter(m, id) == { k \in (m + 1)..Len(messages) : messages[k] = ToolMessage(id) }

\* C29: when the model is called, every tool call of every assistant message of
\* the history has exactly one tool result with its id after it, also in a run
\* after a question and when ask_user or submit_results was not the last tool call
\* of its message.
C29_ToolCallsAnswered ==
    looping =>
        \A m \in 1..Len(messages) :
            messages[m].role = "assistant" =>
                \A c \in 1..Len(messages[m].tool_calls) :
                    Cardinality(resultsAfter(m, messages[m].tool_calls[c])) = 1

\* the run after the first of two tool calls ended the loop: the user has
\* answered, the model is called with the second tool call without a result
C29_Witness ==
    /\ looping
    /\ events = << >>
    /\ pendingQuestion = NoQuestion
    /\ Len(messages) = 5
    /\ Len(messages[3].tool_calls) = 2
    /\ messages[4] = ToolMessage(messages[3].tool_calls[1])
    /\ messages[5] = UserMessage("Use the Amount column")
    /\ resultsAfter(3, messages[3].tool_calls[2]) = { }

=============================================================================
